---- MODULE Spec2Model ----
(***************************************************************************)
(* Document ingestion subsystem of the Ai-agent worker: DocumentManager    *)
(* (upload / process / delete / saveDocumentChunks) over an R2 blob store  *)
(* and the D1 tables documents, document_pages, document_chunks, together  *)
(* with the parser pipeline (file signatures, DocumentParser, PDFParser,   *)
(* TextParser, BaseParser.sanitizeText / chunkText) that Process runs.     *)
(*                                                                         *)
(* Every awaited statement of a handler is one step, so a request can be   *)
(* observed, can meet a store fault, or can be ended by the host between   *)
(* any two statements.                                                     *)
(***************************************************************************)
EXTENDS Integers, Sequences, FiniteSets, TLC

(* ---------------------------------------------------------------- bounds *)
\* Number of document ids the model can hand out.
MaxDocs == 1
\* Number of requests (upload/process/delete/saveDocumentChunks) started.
MaxCalls == 3
\* Number of injected faults (a store statement that throws, a request ended
\* by the host between two statements) over a behaviour.
MaxFaults == 2
\* Length of the texts handed to the chunkers.
MaxTextLen == 6

(* ------------------------------------------------------ program constants *)
\* BaseParser: this.chunkSize = options.chunkSize || 1000
ChunkSize == 1000
\* BaseParser: this.chunkOverlap = options.chunkOverlap || 200
ChunkOverlap == 200
\* uploadDocument: 50 * 1024 * 1024 byte ceiling
MaxUploadBytes == 52428800
\* detectFileType: "Need at least 8 bytes to check most signatures"
MinSignatureBytes == 8
\* validatePDF: minimum size of a PDF
MinPdfBytes == 10
\* extractKeywords(question, 5)
MaxKeywords == 5
\* searchChunksVector(env, question, 8), searchChunksSimple(env, question, 8)
TopK == 8
\* splitIntoChunks(text, chunkSize = 1500, overlap = 200)
SplitChunkSize == 1500
SplitOverlap == 200

(* ------------------------------------------------------------- characters *)
\* Texts are sequences of characters.  NUL stands for any byte outside the
\* printable range that sanitizeText replaces by a blank.
NUL == "NUL"
Whitespace == {" ", "\n"}

RECURSIVE DropLeadingWs(_)
DropLeadingWs(t) ==
  IF t = <<>> THEN <<>>
  ELSE IF Head(t) \in Whitespace THEN DropLeadingWs(Tail(t)) ELSE t

RECURSIVE DropTrailingWs(_)
DropTrailingWs(t) ==
  IF t = <<>> THEN <<>>
  ELSE IF t[Len(t)] \in Whitespace THEN DropTrailingWs(SubSeq(t, 1, Len(t) - 1)) ELSE t

\* String.prototype.trim
Trim(t) == DropTrailingWs(DropLeadingWs(t))

\* .replace(/\s+/g, ' ') : every run of whitespace becomes one blank
RECURSIVE CollapseWs(_)
CollapseWs(t) ==
  IF t = <<>> THEN <<>>
  ELSE IF Head(t) \in Whitespace
       THEN <<" ">> \o CollapseWs(DropLeadingWs(t))
       ELSE <<Head(t)>> \o CollapseWs(Tail(t))

\* .replace(/[^\x20-\x7E\n\r\t]/g, ' ')
ReplaceNonPrintable(t) == [i \in 1..Len(t) |-> IF t[i] = NUL THEN " " ELSE t[i]]

\* BaseParser.sanitizeText
sanitizeText(t) == Trim(CollapseWs(ReplaceNonPrintable(t)))

\* String.prototype.slice(start, end) with 0-based indices; a negative index
\* counts from the end of the string.
Slice(t, start, end) ==
  LET s0 == IF start < 0 THEN (IF Len(t) + start < 0 THEN 0 ELSE Len(t) + start) ELSE start
      s  == IF s0 > Len(t) THEN Len(t) ELSE s0
      e0 == IF end < 0 THEN (IF Len(t) + end < 0 THEN 0 ELSE Len(t) + end) ELSE end
      e  == IF e0 > Len(t) THEN Len(t) ELSE e0
  IN  IF e <= s THEN <<>> ELSE SubSeq(t, s + 1, e)

\* String.prototype.lastIndexOf(ch): 0-based index of the last ch, -1 if none
RECURSIVE LastIndexOf(_, _)
LastIndexOf(t, ch) ==
  IF t = <<>> THEN -1
  ELSE IF t[Len(t)] = ch THEN Len(t) - 1
  ELSE LastIndexOf(SubSeq(t, 1, Len(t) - 1), ch)

Max2(a, b) == IF a > b THEN a ELSE b
Min2(a, b) == IF a < b THEN a ELSE b

\* pages.map(p => p.content).join('\n\n')
RECURSIVE JoinPages(_)
JoinPages(ps) ==
  IF ps = <<>> THEN <<>>
  ELSE IF Len(ps) = 1 THEN ps[1].content
  ELSE ps[1].content \o <<"\n", "\n">> \o JoinPages(Tail(ps))

(* ---------------------------------------------------- BaseParser.chunkText *)
\* Mutant: the window is not cut at start + chunkSize
ChunkWindow_ToTheEnd(text, start, size, overlap) ==
  LET end    == Len(text)
      chunk0 == Slice(text, start, end)
  IN  [chunk |-> Trim(chunk0), next |-> Min2(start + size, Len(text)) - overlap]

\* One pass of the while loop of chunkText at window start `start`:
\* the chunk it pushes (empty when nothing is pushed) and the next start.
ChunkWindow(text, start, size, overlap) ==
  LET end    == Min2(start + size, Len(text))
      chunk0 == Slice(text, start, end)
      bp     == Max2(LastIndexOf(chunk0, "."), LastIndexOf(chunk0, "\n"))
      chunk  == IF end < Len(text) /\ 2 * bp > size
                THEN Slice(chunk0, 0, bp + 1) ELSE chunk0
  IN  [chunk |-> Trim(chunk), next |-> end - overlap]

\* The loop of chunkText.  Its only control state is `start`; when a pass
\* leaves `start` at a value the loop has already been at, the loop repeats
\* for ever and pushes a chunk on every round: the call does not return.
RECURSIVE ChunkLoop(_, _, _, _, _, _)
ChunkLoop(text, start, size, overlap, chunks, seen) ==
  IF ~(start < Len(text)) THEN [returns |-> TRUE, chunks |-> chunks]
  ELSE IF start \in seen THEN [returns |-> FALSE, chunks |-> chunks]
  ELSE LET w == ChunkWindow(text, start, size, overlap)
       IN  ChunkLoop(text, w.next, size, overlap,
                     IF w.chunk # <<>> THEN Append(chunks, w.chunk) ELSE chunks,
                     seen \cup {start})

chunkTextWith(text, size, overlap) == ChunkLoop(text, 0, size, overlap, <<>>, {})

\* chunkText of the parsers DocumentManager constructs (no options given)
chunkText(text) == chunkTextWith(text, ChunkSize, ChunkOverlap)

(* -------------------------------------------------------- file signatures *)
NULL == "null"

\* FILE_SIGNATURES, in the order Object.entries walks it (all at offset 0)
FILE_SIGNATURES ==
  << [type |-> "pdf",  sigs |-> << <<37, 80, 68, 70>> >>],
     [type |-> "png",  sigs |-> << <<137, 80, 78, 71, 13, 10, 26, 10>> >>],
     [type |-> "jpeg", sigs |-> << <<255, 216, 255, 224>>, <<255, 216, 255, 225>>,
                                   <<255, 216, 255, 226>>, <<255, 216, 255, 219>> >>],
     [type |-> "gif",  sigs |-> << <<71, 73, 70, 56, 55, 97>>, <<71, 73, 70, 56, 57, 97>> >>],
     [type |-> "zip",  sigs |-> << <<80, 75, 3, 4>>, <<80, 75, 5, 6>>, <<80, 75, 7, 8>> >>],
     [type |-> "docx", sigs |-> << <<80, 75, 3, 4>> >>],
     [type |-> "xlsx", sigs |-> << <<80, 75, 3, 4>> >>],
     [type |-> "pptx", sigs |-> << <<80, 75, 3, 4>> >>],
     [type |-> "doc",  sigs |-> << <<208, 207, 17, 224, 161, 177, 26, 225>> >>],
     [type |-> "xls",  sigs |-> << <<208, 207, 17, 224, 161, 177, 26, 225>> >>],
     [type |-> "ppt",  sigs |-> << <<208, 207, 17, 224, 161, 177, 26, 225>> >>] >>

\* MIME_TO_SIGNATURE[declaredMimeType]; NULL when the type has no mapping
MIME_TO_SIGNATURE(mime) ==
  CASE mime = "application/pdf" -> "pdf"
    [] mime = "image/png" -> "png"
    [] mime = "image/jpeg" -> "jpeg"
    [] mime = "image/gif" -> "gif"
    [] mime = "application/zip" -> "zip"
    [] mime = "application/vnd.openxmlformats-officedocument.wordprocessingml.document" -> "docx"
    [] mime = "application/vnd.openxmlformats-officedocument.spreadsheetml.sheet" -> "xlsx"
    [] mime = "application/vnd.openxmlformats-officedocument.presentationml.presentation" -> "pptx"
    [] mime = "application/msword" -> "doc"
    [] mime = "application/vnd.ms-excel" -> "xls"
    [] mime = "application/vnd.ms-powerpoint" -> "ppt"
    [] OTHER -> NULL

\* A buffer is its byte length and its leading bytes (head holds the first
\* min(len, 8) bytes; no signature is longer than 8 bytes).
matchesSignature(buf, sig) ==
  /\ ~(buf.len < Len(sig))
  /\ Len(buf.head) >= Len(sig)
  /\ \A i \in 1..Len(sig) : buf.head[i] = sig[i]

RECURSIVE FirstMatch(_, _)
FirstMatch(buf, k) ==
  IF k > Len(FILE_SIGNATURES) THEN NULL
  ELSE IF \E j \in 1..Len(FILE_SIGNATURES[k].sigs) :
            matchesSignature(buf, FILE_SIGNATURES[k].sigs[j])
       THEN FILE_SIGNATURES[k].type
       ELSE FirstMatch(buf, k + 1)

detectFileType(buf) ==
  IF buf.len < MinSignatureBytes THEN NULL ELSE FirstMatch(buf, 1)

\* Mutant: the Office/ZIP exception is left out
validateFileSignature_NoOfficeZip(buf, declaredMimeType) ==
  LET detectedType == detectFileType(buf)
      expectedType == MIME_TO_SIGNATURE(declaredMimeType)
  IN  IF expectedType = NULL
        THEN [isValid |-> TRUE, detectedType |-> detectedType, validatable |-> FALSE,
              message |-> "No signature validation available for this MIME type"]
      ELSE IF detectedType = NULL
        THEN [isValid |-> FALSE, detectedType |-> NULL, validatable |-> TRUE,
              message |-> "Could not detect file signature"]
      ELSE IF detectedType = expectedType
        THEN [isValid |-> TRUE, detectedType |-> detectedType, validatable |-> TRUE,
              message |-> "File signature matches declared type"]
      ELSE [isValid |-> FALSE, detectedType |-> detectedType, validatable |-> TRUE,
            message |-> "File signature mismatch"]

validateFileSignature(buf, declaredMimeType) ==
  LET detectedType == detectFileType(buf)
      expectedType == MIME_TO_SIGNATURE(declaredMimeType)
  IN  IF expectedType = NULL
        THEN [isValid |-> TRUE, detectedType |-> detectedType, validatable |-> FALSE,
              message |-> "No signature validation available for this MIME type"]
      ELSE IF detectedType = NULL
        THEN [isValid |-> FALSE, detectedType |-> NULL, validatable |-> TRUE,
              message |-> "Could not detect file signature"]
      ELSE IF expectedType \in {"docx", "xlsx", "pptx"} /\ detectedType = "zip"
        THEN [isValid |-> TRUE, detectedType |-> "zip", validatable |-> TRUE,
              message |-> "Office document has valid ZIP signature"]
      ELSE IF detectedType = expectedType
        THEN [isValid |-> TRUE, detectedType |-> detectedType, validatable |-> TRUE,
              message |-> "File signature matches declared type"]
      ELSE [isValid |-> FALSE, detectedType |-> detectedType, validatable |-> TRUE,
            message |-> "File signature mismatch"]

isSupportedFileType(fileType) == fileType = NULL \/ fileType \in {"pdf", "text"}

\* validatePDF: size, "%PDF-" header, %%EOF marker in the trailing window
validatePDF(buf) ==
  IF buf.len < MinPdfBytes
    THEN [isValid |-> FALSE, message |-> "File too small to be a valid PDF"]
  ELSE IF ~(Len(buf.head) >= 5 /\ SubSeq(buf.head, 1, 5) = <<37, 80, 68, 70, 45>>)
    THEN [isValid |-> FALSE, message |-> "Invalid PDF header"]
  ELSE IF ~buf.eof
    THEN [isValid |-> FALSE, message |-> "PDF appears to be corrupted - missing EOF marker"]
  ELSE [isValid |-> TRUE, message |-> "Valid PDF"]

(* ------------------------------------------------------------------ files *)
\* The buffers a caller may upload.  `text` is what TextDecoder yields for a
\* text file; `lib` is what the unpdf library (getDocumentProxy, extractText)
\* does with the buffer: it returns the raw page texts or throws.
PdfHead == <<37, 80, 68, 70, 45, 49, 46, 52>>
TxtHead == <<104, 101, 108, 108, 111, 32, 119, 111>>
NoLib   == [throws |-> FALSE, msg |-> "", name |-> "", rawPages |-> <<>>]
LibThrows(m, n) == [throws |-> TRUE, msg |-> m, name |-> n, rawPages |-> <<>>]

Files ==
  << \* 1: zero-byte file
     [len |-> 0, head |-> <<>>, eof |-> FALSE, text |-> <<>>, lib |-> NoLib],
     \* 2: larger than the upload ceiling
     [len |-> MaxUploadBytes + 1, head |-> TxtHead, eof |-> FALSE, text |-> <<"a">>, lib |-> NoLib],
     \* 3: text file with content
     [len |-> 12, head |-> TxtHead, eof |-> FALSE, text |-> <<"a", ".", "\n", "b">>, lib |-> NoLib],
     \* 4: text file holding only blanks and control bytes
     [len |-> 9, head |-> <<32, 32, 0, 10, 32, 32, 32, 32>>, eof |-> FALSE,
      text |-> <<" ", NUL, "\n">>, lib |-> NoLib],
     \* 5: well-formed image-only PDF: one page, no text
     [len |-> 64, head |-> PdfHead, eof |-> TRUE, text |-> <<>>,
      lib |-> [throws |-> FALSE, msg |-> "", name |-> "", rawPages |-> << <<" ">> >>]],
     \* 6: well-formed PDF with text on its second page
     [len |-> 64, head |-> PdfHead, eof |-> TRUE, text |-> <<>>,
      lib |-> [throws |-> FALSE, msg |-> "", name |-> "", rawPages |-> << <<>>, <<"a", " ", "b">> >>]],
     \* 7: PDF header but no %%EOF marker
     [len |-> 64, head |-> PdfHead, eof |-> FALSE, text |-> <<>>, lib |-> NoLib],
     \* 8: password-protected PDF
     [len |-> 64, head |-> PdfHead, eof |-> TRUE, text |-> <<>>,
      lib |-> LibThrows("password", "PasswordException")],
     \* 9: damaged PDF body
     [len |-> 64, head |-> PdfHead, eof |-> TRUE, text |-> <<>>,
      lib |-> LibThrows("bad xref", "InvalidPDFException")],
     \* 10: PDF the library runs out of memory on
     [len |-> 64, head |-> PdfHead, eof |-> TRUE, text |-> <<>>,
      lib |-> LibThrows("out of memory", "Error")],
     \* 11: JPEG image
     [len |-> 64, head |-> <<255, 216, 255, 224, 0, 16, 74, 70>>, eof |-> FALSE,
      text |-> <<>>, lib |-> NoLib] >>

FileIds == 1..Len(Files)
\* `!file`
NoFile == 0

\* filename.split('.').pop()?.toLowerCase() for the names of the model: what
\* follows the last dot, in lower case; the whole name when it has no dot
Ext(filename) ==
  CASE filename = "report.pdf" -> "pdf"
    [] filename = "notes.txt" -> "txt"
    [] filename = "REPORT.PDF" -> "pdf"
    [] filename = "data.json" -> "json"
    [] filename = "archive.bin" -> "bin"
    [] OTHER -> filename


(* ---------------------------------------------------------------- parsers *)
\* What a parse call does: it returns a ParsedDocument (kind "ok"), throws an
\* error carrying code / message / userMessage (kind "throw"; "" stands for
\* an absent property), or does not return (kind "hang").
ParsedOk(fmt, pages, chunks) ==
  [kind |-> "ok", format |-> fmt, pages |-> pages, chunks |-> chunks,
   code |-> "", message |-> "", userMessage |-> ""]
ParseThrow(code, message, userMessage) ==
  [kind |-> "throw", format |-> "", pages |-> <<>>, chunks |-> <<>>,
   code |-> code, message |-> message, userMessage |-> userMessage]
ParseHang ==
  [kind |-> "hang", format |-> "", pages |-> <<>>, chunks |-> <<>>,
   code |-> "", message |-> "", userMessage |-> ""]

\* createPage / createTextPage (the page_metadata column is not modelled)
createPage(pageNumber, content) == [pageNumber |-> pageNumber, content |-> content]

PdfPlaceholder == <<"PDF processed but no text found (might be image-based)">>

\* error.message?.includes(word), for the messages the library throws here
Includes(msg, word) ==
  \/ msg = "password" /\ word = "password"
  \/ msg = "out of memory" /\ word \in {"memory", "out of"}

\* pdf.js 484-491: sanitize every raw page, keep those with content
RECURSIVE PdfPages(_, _)
PdfPages(rawPages, i) ==
  IF i > Len(rawPages) THEN <<>>
  ELSE LET cleanText == sanitizeText(rawPages[i])
       IN  (IF Len(Trim(cleanText)) > 0 THEN <<createPage(i, cleanText)>> ELSE <<>>)
           \o PdfPages(rawPages, i + 1)

\* PDFParser.parse
PDFParserParse(buf, fileInfo) ==
  LET validation == validatePDF(buf) IN
  IF ~validation.isValid THEN ParseThrow("INVALID_PDF", validation.message, "")
  ELSE IF buf.lib.throws THEN
    LET m == buf.lib.msg
        message == "PDF parsing failed: " \o m
    IN  IF Includes(m, "password") \/ Includes(m, "encrypted")
          THEN ParseThrow("PDF_ENCRYPTED", message,
                          "This PDF is password-protected and cannot be parsed.")
        ELSE IF Includes(m, "getDocumentProxy") \/ buf.lib.name = "InvalidPDFException"
          THEN ParseThrow("PDF_CORRUPTED", message,
                          "This PDF appears to be corrupted or invalid.")
        ELSE IF Includes(m, "memory") \/ Includes(m, "out of")
          THEN ParseThrow("PDF_TOO_LARGE", message,
                          "This PDF is too large or complex to process.")
        ELSE ParseThrow("PDF_PARSE_ERROR", message,
                        "An error occurred while parsing this PDF.")
  ELSE
    LET pages == PdfPages(buf.lib.rawPages, 1)
        chunked == chunkText(JoinPages(pages))
    IN  IF ~chunked.returns THEN ParseHang
        ELSE ParsedOk("pdf",
                      IF Len(pages) > 0 THEN pages ELSE <<createPage(1, PdfPlaceholder)>>,
                      chunked.chunks)

\* TextParser.detectTextFormat: none of the file names of the model carries a
\* md/json/csv/xml/html extension and no text over the model's characters shows
\* markdown, JSON, CSV or markup syntax, so the format is the default.
detectTextFormat(text, fileInfo) == "txt"

\* TextParser.splitPlainText for a text shorter than pageSize (one pass of its
\* loop): the trimmed text as page 1, or a page holding the text as it is
\* when trimming leaves nothing.
splitPlainText(text) ==
  LET trimmed == Trim(text)
  IN  IF Len(trimmed) > 0 THEN <<createPage(1, trimmed)>> ELSE <<createPage(1, text)>>

\* TextParser.parse
TextParserParse(buf, fileInfo) ==
  LET cleanText == sanitizeText(buf.text)
      format == detectTextFormat(cleanText, fileInfo)
      pages == splitPlainText(cleanText)
      chunked == chunkText(JoinPages(pages))
  IN  IF ~chunked.returns THEN ParseHang
      ELSE ParsedOk(format, pages, chunked.chunks)

TextMimeTypes ==
  {"text/plain", "text/markdown", "application/json", "text/csv", "application/xml",
   "text/xml", "text/html", "application/yaml", "text/x-yaml"}
TextExtensions ==
  {"txt", "text", "md", "markdown", "json", "csv", "xml", "html", "htm", "log", "yaml", "yml"}

\* contentType.startsWith('text/'), for the content types of the model
StartsWithText(contentType) == contentType \in {"text/plain", "text/markdown", "text/csv",
                                                "text/xml", "text/html", "text/x-yaml",
                                                "text/calendar"}

\* DocumentParser.detectParser ("none": it throws)
detectParser(fileInfo, detectedType) ==
  IF detectedType = "pdf" THEN "pdf"
  ELSE IF fileInfo.type = "application/pdf" \/ Ext(fileInfo.name) = "pdf" THEN "pdf"
  ELSE IF fileInfo.type \in TextMimeTypes \/ StartsWithText(fileInfo.type)
          \/ Ext(fileInfo.name) \in TextExtensions THEN "text"
  ELSE IF detectedType = NULL THEN "text"
  ELSE "none"

\* The catch block of DocumentParser.parse (base.js 292-306)
RethrowParserError(parserType, e) ==
  IF e.code \in {"SIGNATURE_MISMATCH", "UNSUPPORTED_FILE_TYPE"} THEN e
  ELSE ParseThrow("PARSE_ERROR",
                  "Failed to parse " \o parserType \o " file: " \o e.message, "")

\* The format parser DocumentParser.parse routes to, and its own outcome
FormatParserParse(parserType, buf, fileInfo) ==
  IF parserType = "pdf" THEN PDFParserParse(buf, fileInfo) ELSE TextParserParse(buf, fileInfo)

\* DocumentParser.parse
DocumentParserParse(buf, fileInfo) ==
  LET signatureValidation == validateFileSignature(buf, fileInfo.type)
      detectedType == detectFileType(buf)
      parserType == detectParser(fileInfo, detectedType)
  IN  IF ~signatureValidation.isValid /\ signatureValidation.validatable
        THEN ParseThrow("SIGNATURE_MISMATCH", signatureValidation.message, "")
      ELSE IF detectedType # NULL /\ ~isSupportedFileType(detectedType)
        THEN ParseThrow("UNSUPPORTED_FILE_TYPE", "Unsupported file type", "")
      ELSE IF parserType = "none"
        THEN ParseThrow("", "Unable to determine parser for file type", "")
      ELSE LET r == FormatParserParse(parserType, buf, fileInfo)
           IN  IF r.kind = "throw" THEN RethrowParserError(parserType, r) ELSE r


(* ------------------------------------------------------------------ state *)
VARIABLES
  r2,               \* blob store: key "documents/<id>" (the id here) -> file
  documents,        \* table documents: id -> row
  document_pages,   \* table document_pages: set of rows
  document_chunks,  \* table document_chunks: set of rows
  nextPageId,       \* AUTOINCREMENT of document_pages.id
  nextChunkId,      \* AUTOINCREMENT of document_chunks.id
  nextDoc,          \* number of document ids under which something was stored
  req,              \* the requests being served: slot -> call state
  calls,            \* requests started
  faults,           \* faults injected
  lastClean,        \* history: id -> rows left by the last undisturbed Process
  failedRun,        \* history: id -> a Process run on it failed, hung or was cut off
  documents_fts,        \* full-text index over document_pages: set of entries
  document_chunks_fts,  \* full-text index over document_chunks: set of entries
  DOC_INDEX,        \* vector index: the records upserted, by id
  hasDocIndex,      \* env.DOC_INDEX is bound
  call              \* a call of a pure function: its arguments and what it returned

tables == <<r2, documents, document_pages, document_chunks, nextPageId, nextChunkId, nextDoc>>
\* The derived full-text tables
indexes == <<documents_fts, document_chunks_fts>>
\* What no DocumentManager statement touches
outside == <<DOC_INDEX, hasDocIndex, call>>
vars == <<r2, documents, document_pages, document_chunks, nextPageId, nextChunkId, nextDoc,
          req, calls, faults, lastClean, failedRun,
          documents_fts, document_chunks_fts, DOC_INDEX, hasDocIndex, call>>

\* The ids callers served one after the other are given, and one more for the
\* document of a second caller served at the same time
DocIds == 1..(MaxDocs + 1)
Slots == {"r1", "r2"}
\* The slot that serves requests one after the other
SeqSlots == {"r1"}

Exists(d) == d \in DOMAIN documents
HasBlob(k) == k \in DOMAIN r2

PagesOf(d) == {p \in document_pages : p.document_id = d}
ChunksOf(d) == {c \in document_chunks : c.document_id = d}

\* The rows of a document as a reader sees them, row ids apart
ViewOf(pages, chunks) ==
  [np |-> Cardinality(pages),
   pages |-> {<<p.page_number, p.content>> : p \in pages},
   nc |-> Cardinality(chunks),
   chunks |-> {<<c.chunk_index, c.chunk_text>> : c \in chunks}]
DocView(d) == ViewOf(PagesOf(d), ChunksOf(d))
EmptyView == ViewOf({}, {})

Snapshot == [r2 |-> r2, documents |-> documents,
             pages |-> document_pages, chunks |-> document_chunks]
NoSnapshot == [r2 |-> <<>>, documents |-> <<>>, pages |-> {}, chunks |-> {}]

NoParse == [kind |-> "none", format |-> "", pages |-> <<>>, chunks |-> <<>>,
            code |-> "", message |-> "", userMessage |-> ""]
NoResult == [kind |-> "none", message |-> ""]
NoClean == [valid |-> FALSE, view |-> EmptyView]

NoHealth == [exists |-> FALSE, healthy |-> FALSE, ftsCount |-> 0, pagesCount |-> 0,
             chunkFtsCount |-> 0, chunkCount |-> 0]
\* The contents of the two full-text tables
Indexes == [pages |-> documents_fts, chunks |-> document_chunks_fts]
NoIndexes == [pages |-> {}, chunks |-> {}]

\* The other requests keep nothing there
NoExt == [none |-> TRUE]

IdleReq ==
  [op |-> "none", pc |-> "idle", doc |-> 0, file |-> NoFile, filename |-> "",
   contentType |-> "", error |-> "", reject |-> "", parsed |-> NoParse,
   rows |-> <<>>, idx |-> 1, result |-> NoResult, faulted |-> FALSE,
   blobWritten |-> FALSE, deleteIssued |-> FALSE, deleteFailed |-> FALSE,
   logged |-> {}, pre |-> NoSnapshot, prev |-> NoClean, hadFailed |-> FALSE,
   serial |-> 0, beside |-> 0, lastWrite |-> "none",
   ext |-> NoExt]

\* A request on the indexes, a question or a text ingestion: what it keeps
\* besides
ExtReq ==
  [IdleReq EXCEPT !.ext =
     [health |-> NoHealth, found |-> {}, question |-> <<>>, via |-> "",
      idx0 |-> NoIndexes, left |-> NoIndexes, twice |-> FALSE,
      caught |-> FALSE, vector |-> "", lexThrows |-> 0, upsert |-> "",
      mid |-> NoSnapshot, after |-> NoSnapshot]]

Free(s) == req[s].pc \in {"idle", "done"}
Active(s) == ~Free(s)

\* History kept in a request: lastWrite is the kind of the last store
\* statement that ran and wrote ("status": a statement that sets
\* documents.status; "page", "chunk", "blob"; "none": no write yet).

\* History: the serial number of the request being served in another slot
\* when the request in slot s begins (0: none)
Beside(s) ==
  IF \E o \in Slots \ {s} : Active(o)
  THEN req[CHOOSE o \in Slots \ {s} : Active(o)].serial
  ELSE 0

NoCall == [fn |-> "none", pc |-> "idle"]

\* CREATE TRIGGER documents_fts_insert AFTER INSERT ON document_pages
documents_fts_insert(fts, inserted) ==
  fts \cup {[rowid |-> p.id, document_id |-> p.document_id, content |-> p.content] :
              p \in inserted}

\* CREATE TRIGGER documents_fts_delete AFTER DELETE ON document_pages
documents_fts_delete(fts, deleted) ==
  {e \in fts : e.rowid \notin {p.id : p \in deleted}}

\* CREATE TRIGGER document_chunks_ai AFTER INSERT ON document_chunks
document_chunks_ai(fts, inserted) ==
  fts \cup {[rowid |-> c.id, chunk_text |-> c.chunk_text] : c \in inserted}

\* CREATE TRIGGER document_chunks_ad AFTER DELETE ON document_chunks
document_chunks_ad(fts, deleted) ==
  {e \in fts : e.rowid \notin {c.id : c \in deleted}}

\* A statement on document_pages or document_chunks runs with the triggers:
\* rows removed by the statement (cascaded deletes included) fire the delete
\* trigger, rows added fire the insert trigger.
Triggers ==
  /\ documents_fts' =
       documents_fts_insert(documents_fts_delete(documents_fts, document_pages \ document_pages'),
                            document_pages' \ document_pages)
  /\ document_chunks_fts' =
       document_chunks_ai(document_chunks_ad(document_chunks_fts,
                                             document_chunks \ document_chunks'),
                          document_chunks' \ document_chunks)

InitStores ==
  /\ r2 = <<>>
  /\ documents = <<>>
  /\ document_pages = {}
  /\ document_chunks = {}
  /\ nextPageId = 1
  /\ nextChunkId = 1
  /\ nextDoc = 0
  /\ req = [s \in Slots |-> IdleReq]
  /\ calls = 0
  /\ faults = 0
  /\ lastClean = [d \in DocIds |-> NoClean]
  /\ failedRun = [d \in DocIds |-> FALSE]
  /\ documents_fts = {}
  /\ document_chunks_fts = {}
  /\ DOC_INDEX = {}

\* The worker without a vector index binding
Init == InitStores /\ hasDocIndex = FALSE /\ call = NoCall

\* A store statement either runs or throws; throwing spends the fault budget.
StoreOutcomes == IF faults < MaxFaults THEN {TRUE, FALSE} ELSE {TRUE}
Spend(ok) == faults' = IF ok THEN faults ELSE faults + 1

\* The request ends: what the caller gets.
Done(r, kind, message) ==
  [r EXCEPT !.pc = "done", !.result = [kind |-> kind, message |-> message]]

(* ----------------------------------------------------------------- upload *)
\* Mutant: the checks before the blob write, the emptiness check left out
UploadRejection_AcceptsEmpty(f, fn, ct) ==
  IF f = NoFile THEN "No file provided"
  ELSE IF fn = "" THEN "Filename is required"
  ELSE IF Files[f].len > MaxUploadBytes THEN "File size exceeds 50MB limit"
  ELSE LET v == validateFileSignature(Files[f], ct)
           detectedType == detectFileType(Files[f])
       IN  IF ~v.isValid /\ v.validatable THEN v.message
           ELSE IF detectedType # NULL /\ detectedType \notin {"pdf", NULL}
             THEN "Unsupported file type"
           ELSE ""

\* manager.js 446-492: the checks before the blob write.  "" when all pass.
UploadRejection(f, fn, ct) ==
  IF f = NoFile THEN "No file provided"
  ELSE IF fn = "" THEN "Filename is required"
  ELSE IF Files[f].len = 0 THEN "File is empty"
  ELSE IF Files[f].len > MaxUploadBytes THEN "File size exceeds 50MB limit"
  ELSE LET v == validateFileSignature(Files[f], ct)
           detectedType == detectFileType(Files[f])
       IN  IF ~v.isValid /\ v.validatable THEN v.message
           ELSE IF detectedType # NULL /\ detectedType \notin {"pdf", NULL}
             THEN "Unsupported file type"
           ELSE ""

\* The uploads tried: each file under the name and type a client would send it
\* with, and the ways a client gets them wrong.
UploadInputs ==
  {<<f, "report.pdf", "application/pdf">> : f \in {NoFile, 2, 3, 5, 6, 7, 8, 9, 10, 11}}
  \cup {<<f, "notes.txt", "text/plain">> : f \in {1, 3, 4, 11}}
  \cup {<<3, "notes.txt", "">>, <<6, "", "application/pdf">>}

\* The uploads that fail a check before the blob write
RejectedInputs == {u \in UploadInputs : UploadRejection(u[1], u[2], u[3]) # ""}

\* uploadDocument: documentId and r2Key are made first.  An id stays unused
\* until the upload stores something under it; MaxDocs caps the uploads that
\* get as far as storing.
StartUpload(s, f, fn, ct) ==
  /\ Free(s)
  /\ calls < MaxCalls
  /\ nextDoc < MaxDocs \/ <<f, fn, ct>> \in RejectedInputs
  /\ calls' = calls + 1
  /\ req' = [req EXCEPT ![s] =
              [IdleReq EXCEPT !.op = "upload", !.pc = "u_validate", !.doc = nextDoc + 1,
                              !.serial = calls + 1, !.beside = Beside(s),
                              !.file = f, !.filename = fn, !.contentType = ct,
                              !.pre = Snapshot]]
  /\ UNCHANGED <<tables, faults, lastClean, failedRun>>
  /\ UNCHANGED indexes
  /\ UNCHANGED outside

UploadValidate(s) ==
  /\ req[s].pc = "u_validate"
  /\ LET why == UploadRejection(req[s].file, req[s].filename, req[s].contentType)
     IN  req' = [req EXCEPT ![s] =
                  IF why = "" THEN [@ EXCEPT !.pc = "u_put"]
                  ELSE [@ EXCEPT !.pc = "u_cleanup", !.error = why, !.reject = why]]
  /\ UNCHANGED <<tables, calls, faults, lastClean, failedRun>>
  /\ UNCHANGED indexes
  /\ UNCHANGED outside

\* await this.r2.put(r2Key, fileBuffer, ...)
UploadPut(s) ==
  /\ req[s].pc = "u_put"
  /\ \E ok \in StoreOutcomes :
       /\ Spend(ok)
       /\ IF ok
          THEN /\ r2' = [k \in DOMAIN r2 \cup {req[s].doc} |->
                           IF k = req[s].doc THEN req[s].file ELSE r2[k]]
               /\ nextDoc' = nextDoc + 1
               /\ req' = [req EXCEPT ![s] = [@ EXCEPT !.pc = "u_insdoc", !.blobWritten = TRUE,
                                                      !.lastWrite = "blob"]]
          ELSE /\ UNCHANGED <<r2, nextDoc>>
               /\ req' = [req EXCEPT ![s] = [@ EXCEPT !.pc = "u_cleanup", !.faulted = TRUE,
                                                      !.error = "R2 put failed"]]
  /\ UNCHANGED <<documents, document_pages, document_chunks, nextPageId, nextChunkId,
                 calls, lastClean, failedRun>>
  /\ UNCHANGED indexes
  /\ UNCHANGED outside

NoMeta == [kind |-> "null", code |-> "", message |-> "", userMessage |-> ""]

\* INSERT INTO documents (...) VALUES (..., 'uploaded')
UploadInsertDoc(s) ==
  /\ req[s].pc = "u_insdoc"
  /\ \E ok \in StoreOutcomes :
       /\ Spend(ok)
       /\ IF ok
          THEN /\ documents' = [k \in DOMAIN documents \cup {req[s].doc} |->
                     IF k = req[s].doc
                     THEN [filename |-> req[s].filename,
                           content_type |-> IF req[s].contentType = "" THEN "application/pdf"
                                            ELSE req[s].contentType,
                           r2_key |-> req[s].doc, page_count |-> 1, status |-> "uploaded",
                           format |-> "", parsed_metadata |-> NoMeta]
                     ELSE documents[k]]
               /\ req' = [req EXCEPT ![s] = [@ EXCEPT !.pc = "u_inspage",
                                                      !.lastWrite = "status"]]
          ELSE /\ UNCHANGED documents
               /\ req' = [req EXCEPT ![s] = [@ EXCEPT !.pc = "u_cleanup", !.faulted = TRUE,
                                                      !.error = "D1 insert documents failed"]]
  /\ UNCHANGED <<r2, document_pages, document_chunks, nextPageId, nextChunkId, nextDoc,
                 calls, lastClean, failedRun>>
  /\ UNCHANGED indexes
  /\ UNCHANGED outside

UploadPlaceholder == <<"Document: <filename> (text extraction pending)">>

\* Mutant: the placeholder row is written with page number 0
PlaceholderPageRow_PageZero(id, d) ==
  [id |-> id, document_id |-> d, page_number |-> 0, content |-> UploadPlaceholder]

\* .bind(documentId, 1, `Document: ${metadata.filename} (text extraction pending)`)
PlaceholderPageRow(id, d) ==
  [id |-> id, document_id |-> d, page_number |-> 1, content |-> UploadPlaceholder]

\* INSERT INTO document_pages (document_id, page_number, content) VALUES (?, 1, placeholder)
UploadInsertPage(s) ==
  /\ req[s].pc = "u_inspage"
  /\ \E ok \in StoreOutcomes :
       /\ Spend(ok)
       /\ IF ok
          THEN /\ document_pages' = document_pages \cup
                     {PlaceholderPageRow(nextPageId, req[s].doc)}
               /\ nextPageId' = nextPageId + 1
               /\ req' = [req EXCEPT ![s] = [Done(@, "ok", "uploaded") EXCEPT
                                              !.lastWrite = "page"]]
          ELSE /\ UNCHANGED <<document_pages, nextPageId>>
               /\ req' = [req EXCEPT ![s] = [@ EXCEPT !.pc = "u_cleanup", !.faulted = TRUE,
                                                      !.error = "D1 insert document_pages failed"]]
  /\ UNCHANGED <<r2, documents, document_chunks, nextChunkId, nextDoc,
                 calls, lastClean, failedRun>>
  /\ Triggers
  /\ UNCHANGED outside

\* Mutant: the delete of the blob key is not issued
r2Delete_KeepsBlob(blobs, k) == blobs

\* this.r2.delete(key): the blob store without the key (absent keys are no error)
r2Delete(blobs, k) == [x \in DOMAIN blobs \ {k} |-> blobs[x]]

\* catch: try { await this.r2.delete(r2Key) } catch (e) { console.error(...) }
UploadCleanup(s) ==
  /\ req[s].pc = "u_cleanup"
  /\ \E ok \in StoreOutcomes :
       /\ Spend(ok)
       /\ IF ok
          THEN /\ r2' = r2Delete(r2, req[s].doc)
               /\ req' = [req EXCEPT ![s] = [@ EXCEPT !.pc = "u_mark", !.deleteIssued = TRUE,
                                                      !.lastWrite = "blob"]]
          ELSE /\ UNCHANGED r2
               /\ req' = [req EXCEPT ![s] =
                           [@ EXCEPT !.pc = "u_mark", !.deleteIssued = TRUE,
                                     !.deleteFailed = TRUE,
                                     !.logged = @ \cup {"Failed to clean up R2 object"}]]
  /\ UNCHANGED <<documents, document_pages, document_chunks, nextPageId, nextChunkId, nextDoc,
                 calls, lastClean, failedRun>>
  /\ UNCHANGED indexes
  /\ UNCHANGED outside

\* catch: try { UPDATE documents SET status = 'error' WHERE id = ? } catch (e) {}
\* then: throw new Error(`Failed to upload document: ${error.message}`)
UploadMarkError(s) ==
  /\ req[s].pc = "u_mark"
  /\ \E ok \in StoreOutcomes :
       /\ Spend(ok)
       /\ documents' = IF ok /\ Exists(req[s].doc)
                       THEN [documents EXCEPT ![req[s].doc].status = "error"]
                       ELSE documents
       /\ req' = [req EXCEPT ![s] =
                   [Done(@, "error", "Failed to upload document: " \o req[s].error) EXCEPT
                      !.lastWrite = IF ok THEN "status" ELSE @]]
  /\ UNCHANGED <<r2, document_pages, document_chunks, nextPageId, nextChunkId, nextDoc,
                 calls, lastClean, failedRun>>
  /\ UNCHANGED indexes
  /\ UNCHANGED outside

(* ---------------------------------------------------------------- process *)
\* History kept when a Process run on d ends with `r` its final call state:
\* a run that parsed and met no fault leaves the rows later runs are compared
\* with; a run on a stored document that did not return success is remembered
\* as failed.
ProcessEnds(d, r, pages, chunks) ==
  /\ lastClean' = [lastClean EXCEPT ![d] =
                    IF r.parsed.kind = "ok" /\ ~r.faulted /\ r.result.kind \in {"ok", "error"}
                    THEN [valid |-> TRUE,
                          view |-> ViewOf({p \in pages : p.document_id = d},
                                          {c \in chunks : c.document_id = d})]
                    ELSE NoClean]
  /\ failedRun' = [failedRun EXCEPT ![d] = @ \/ (Exists(d) /\ r.result.kind # "ok")]

\* The outer catch of processDocument: throw new Error(`Failed to process document: ...`)
ProcessThrows(r, message, isFault) ==
  [Done(r, "error", "Failed to process document: " \o message) EXCEPT
     !.faulted = r.faulted \/ isFault]

StartProcess(s, d) ==
  /\ Free(s)
  /\ calls < MaxCalls
  /\ calls' = calls + 1
  /\ req' = [req EXCEPT ![s] =
              [IdleReq EXCEPT !.op = "process", !.pc = "p_select", !.doc = d,
                              !.serial = calls + 1, !.beside = Beside(s),
                              !.pre = Snapshot, !.prev = lastClean[d],
                              !.hadFailed = failedRun[d]]]
  /\ UNCHANGED <<tables, faults, lastClean, failedRun>>
  /\ UNCHANGED indexes
  /\ UNCHANGED outside

\* SELECT * FROM documents WHERE id = ?
ProcSelect(s) ==
  /\ req[s].pc = "p_select"
  /\ \E ok \in StoreOutcomes :
       /\ Spend(ok)
       /\ LET r == IF ~ok THEN ProcessThrows(req[s], "D1 select failed", TRUE)
                   ELSE IF ~Exists(req[s].doc)
                     THEN ProcessThrows(req[s], "Document not found", FALSE)
                   ELSE [req[s] EXCEPT !.pc = "p_getfile",
                                       !.filename = documents[req[s].doc].filename,
                                       !.contentType = documents[req[s].doc].content_type]
          IN  /\ req' = [req EXCEPT ![s] = r]
              /\ IF r.pc = "done"
                 THEN ProcessEnds(req[s].doc, r, document_pages, document_chunks)
                 ELSE UNCHANGED <<lastClean, failedRun>>
  /\ UNCHANGED <<tables, calls>>
  /\ UNCHANGED indexes
  /\ UNCHANGED outside

\* getDocumentFile: SELECT r2_key ..., this.r2.get(doc.r2_key)
ProcGetFile(s) ==
  /\ req[s].pc = "p_getfile"
  /\ \E ok \in StoreOutcomes :
       /\ Spend(ok)
       /\ LET d == req[s].doc
              r == IF ~ok THEN ProcessThrows(req[s], "R2 get failed", TRUE)
                   ELSE IF ~Exists(d) THEN ProcessThrows(req[s], "Document not found", FALSE)
                   ELSE IF ~HasBlob(documents[d].r2_key)
                     THEN ProcessThrows(req[s], "Document file not found in storage", FALSE)
                   ELSE [req[s] EXCEPT !.pc = "p_parse", !.file = r2[documents[d].r2_key]]
          IN  /\ req' = [req EXCEPT ![s] = r]
              /\ IF r.pc = "done"
                 THEN ProcessEnds(d, r, document_pages, document_chunks)
                 ELSE UNCHANGED <<lastClean, failedRun>>
  /\ UNCHANGED <<tables, calls>>
  /\ UNCHANGED indexes
  /\ UNCHANGED outside

\* parsedData = await this.parser.parse(fileBuffer, {name, type, size}).
\* When the parse does not return, no later statement of the run executes:
\* the host's time and memory ceilings end the request.
ProcParse(s) ==
  /\ req[s].pc = "p_parse"
  /\ \E parsed \in {DocumentParserParse(Files[req[s].file],
                         [name |-> req[s].filename, type |-> req[s].contentType])} :
     LET r == IF parsed.kind = "ok" THEN [req[s] EXCEPT !.pc = "p_delpages", !.parsed = parsed]
              ELSE IF parsed.kind = "throw"
                THEN [req[s] EXCEPT !.pc = "p_markerr", !.parsed = parsed]
              ELSE [Done(req[s], "hang", "parse did not return") EXCEPT !.parsed = parsed]
     IN  /\ req' = [req EXCEPT ![s] = r]
         /\ IF r.pc = "done"
            THEN ProcessEnds(req[s].doc, r, document_pages, document_chunks)
            ELSE UNCHANGED <<lastClean, failedRun>>
  /\ UNCHANGED <<tables, calls, faults>>
  /\ UNCHANGED indexes
  /\ UNCHANGED outside

\* Mutant: the payload takes the error's own userMessage, with no fallback
ParseErrorPayload_NoFallback(e) ==
  [kind |-> "error", code |-> e.code, message |-> e.message, userMessage |-> e.userMessage]

\* manager.js 619-626: the payload stored in parsed_metadata on a parser error
ParseErrorPayload(e) ==
  [kind |-> "error",
   code |-> IF e.code = "" THEN "PARSE_ERROR" ELSE e.code,
   message |-> e.message,
   userMessage |-> IF e.userMessage = "" THEN e.message ELSE e.userMessage]

\* manager.js 631-647: the message of the error thrown after a parser error
ParseErrorMessage(e) ==
  LET userMessage == IF e.userMessage = "" THEN e.message ELSE e.userMessage
  IN  CASE e.code = "SIGNATURE_MISMATCH" -> "File type validation failed: " \o userMessage
        [] e.code = "UNSUPPORTED_FILE_TYPE" -> "Unsupported file type: " \o userMessage
        [] e.code = "INVALID_PDF" -> "Invalid PDF file: " \o userMessage
        [] e.code = "PDF_ENCRYPTED" -> "This PDF is password-protected and cannot be processed."
        [] e.code = "PDF_CORRUPTED" -> "This PDF appears to be corrupted or invalid."
        [] e.code = "PDF_TOO_LARGE" -> "This PDF is too large or complex to process."
        [] OTHER -> "Document parsing failed: " \o userMessage

\* catch (error) { UPDATE documents SET status = 'error', parsed_metadata = ? ...; throw ... }
ProcMarkError(s) ==
  /\ req[s].pc = "p_markerr"
  /\ \E ok \in StoreOutcomes :
       /\ Spend(ok)
       /\ LET d == req[s].doc
              r == IF ok THEN ProcessThrows(req[s], ParseErrorMessage(req[s].parsed), FALSE)
                   ELSE ProcessThrows(req[s], "D1 update failed", TRUE)
          IN  /\ documents' = IF ok /\ Exists(d)
                              THEN [documents EXCEPT ![d].status = "error",
                                      ![d].parsed_metadata = ParseErrorPayload(req[s].parsed)]
                              ELSE documents
              /\ req' = [req EXCEPT ![s] = [r EXCEPT !.lastWrite = IF ok THEN "status" ELSE @]]
              /\ ProcessEnds(d, r, document_pages, document_chunks)
  /\ UNCHANGED <<r2, document_pages, document_chunks, nextPageId, nextChunkId, nextDoc, calls>>
  /\ UNCHANGED indexes
  /\ UNCHANGED outside

\* Mutant: the DELETE has no WHERE clause
DeletePagesOf_EveryDocument(pages, d) == {}

\* Mutant: the run inserts without deleting the document's pages first
DeletePagesOf_KeepsRows(pages, d) == pages

\* DELETE FROM document_pages WHERE document_id = ?
DeletePagesOf(pages, d) == {p \in pages : p.document_id # d}

ProcDeletePages(s) ==
  /\ req[s].pc = "p_delpages"
  /\ \E ok \in StoreOutcomes :
       /\ Spend(ok)
       /\ LET d == req[s].doc
              r == IF ok THEN [req[s] EXCEPT !.pc = "p_delchunks"]
                   ELSE ProcessThrows(req[s], "D1 delete failed", TRUE)
          IN  /\ document_pages' = IF ok THEN DeletePagesOf(document_pages, d) ELSE document_pages
              /\ req' = [req EXCEPT ![s] = [r EXCEPT !.lastWrite = IF ok THEN "page" ELSE @]]
              /\ IF r.pc = "done"
                 THEN ProcessEnds(d, r, document_pages, document_chunks)
                 ELSE UNCHANGED <<lastClean, failedRun>>
  /\ UNCHANGED <<r2, documents, document_chunks, nextPageId, nextChunkId, nextDoc, calls>>
  /\ Triggers
  /\ UNCHANGED outside

\* parsedData.pages.filter(page => page.content && page.content.length > 0)
validPages(pages) == SelectSeq(pages, LAMBDA p : Len(p.content) > 0)

\* manager.js 698-706: the chunks stored, each with its index in parsedData.chunks
RECURSIVE ChunkRows(_, _)
ChunkRows(chunks, i) ==
  IF i > Len(chunks) THEN <<>>
  ELSE (IF Len(Trim(chunks[i])) > 0
        THEN <<[t |-> "chunk", n |-> i - 1, text |-> Trim(chunks[i])]>> ELSE <<>>)
       \o ChunkRows(chunks, i + 1)

PageRows(pages) ==
  [i \in 1..Len(pages) |-> [t |-> "page", n |-> pages[i].pageNumber, text |-> pages[i].content]]

\* The INSERT statements of a run, in the order the two loops issue them
InsertsOf(parsed) == PageRows(validPages(parsed.pages)) \o ChunkRows(parsed.chunks, 1)

\* DELETE FROM document_chunks WHERE document_id = ?; then the validPages test
ProcDeleteChunks(s) ==
  /\ req[s].pc = "p_delchunks"
  /\ \E ok \in StoreOutcomes :
       /\ Spend(ok)
       /\ LET d == req[s].doc
              r == IF ~ok THEN ProcessThrows(req[s], "D1 delete failed", TRUE)
                   ELSE IF Len(validPages(req[s].parsed.pages)) = 0
                     THEN [req[s] EXCEPT !.pc = "p_nocontent"]
                   ELSE [req[s] EXCEPT !.pc = "p_insert", !.idx = 1,
                                       !.rows = InsertsOf(req[s].parsed)]
          IN  /\ document_chunks' = IF ok THEN document_chunks \ ChunksOf(d) ELSE document_chunks
              /\ req' = [req EXCEPT ![s] = [r EXCEPT !.lastWrite = IF ok THEN "chunk" ELSE @]]
              /\ IF r.pc = "done"
                 THEN ProcessEnds(d, r, document_pages, document_chunks)
                 ELSE UNCHANGED <<lastClean, failedRun>>
  /\ UNCHANGED <<r2, documents, document_pages, nextPageId, nextChunkId, nextDoc, calls>>
  /\ Triggers
  /\ UNCHANGED outside

NoContentPayload ==
  [kind |-> "error", code |-> "NO_CONTENT",
   message |-> "No extractable text content found in document",
   userMessage |-> "This document appears to have no extractable text. It may be an image-only PDF or empty file."]

\* UPDATE documents SET status = 'error', parsed_metadata = {NO_CONTENT}; throw
ProcNoContent(s) ==
  /\ req[s].pc = "p_nocontent"
  /\ \E ok \in StoreOutcomes :
       /\ Spend(ok)
       /\ LET d == req[s].doc
              r == IF ok THEN ProcessThrows(req[s],
                        "No extractable text content found in document. The file may be image-only or empty.",
                        FALSE)
                   ELSE ProcessThrows(req[s], "D1 update failed", TRUE)
          IN  /\ documents' = IF ok /\ Exists(d)
                              THEN [documents EXCEPT ![d].status = "error",
                                                     ![d].parsed_metadata = NoContentPayload]
                              ELSE documents
              /\ req' = [req EXCEPT ![s] = [r EXCEPT !.lastWrite = IF ok THEN "status" ELSE @]]
              /\ ProcessEnds(d, r, document_pages, document_chunks)
  /\ UNCHANGED <<r2, document_pages, document_chunks, nextPageId, nextChunkId, nextDoc, calls>>
  /\ UNCHANGED indexes
  /\ UNCHANGED outside

\* The next INSERT of the two loops (manager.js 685-706): a page row while
\* valid pages are left, then a chunk row.  Both tables reference documents(id).
ProcInsert(s) ==
  /\ req[s].pc = "p_insert"
  /\ \E ok \in StoreOutcomes :
       /\ Spend(ok)
       /\ LET d == req[s].doc
              row == req[s].rows[req[s].idx]
              stored == ok /\ Exists(d)
              r == IF ~ok THEN ProcessThrows(req[s], "D1 insert failed", TRUE)
                   ELSE IF ~Exists(d)
                     THEN ProcessThrows(req[s], "FOREIGN KEY constraint failed", FALSE)
                   ELSE IF req[s].idx = Len(req[s].rows) THEN [req[s] EXCEPT !.pc = "p_update"]
                   ELSE [req[s] EXCEPT !.idx = @ + 1]
          IN  /\ IF stored /\ row.t = "page"
                 THEN /\ document_pages' = document_pages \cup
                           {[id |-> nextPageId, document_id |-> d, page_number |-> row.n,
                             content |-> row.text]}
                      /\ nextPageId' = nextPageId + 1
                 ELSE UNCHANGED <<document_pages, nextPageId>>
              /\ IF stored /\ row.t = "chunk"
                 THEN /\ document_chunks' = document_chunks \cup
                           {[id |-> nextChunkId, document_id |-> d, chunk_index |-> row.n,
                             chunk_text |-> row.text]}
                      /\ nextChunkId' = nextChunkId + 1
                 ELSE UNCHANGED <<document_chunks, nextChunkId>>
              /\ req' = [req EXCEPT ![s] = [r EXCEPT !.lastWrite = IF stored THEN row.t ELSE @]]
              /\ IF r.pc = "done"
                 THEN ProcessEnds(d, r, document_pages, document_chunks)
                 ELSE UNCHANGED <<lastClean, failedRun>>
  /\ UNCHANGED <<r2, documents, nextDoc, calls>>
  /\ Triggers
  /\ UNCHANGED outside

\* manager.js 722-733: parsed_metadata holds JSON.stringify(parsedData.metadata)
ParsedMeta == [kind |-> "meta", code |-> "", message |-> "", userMessage |-> ""]

\* UPDATE documents SET status = 'processed', page_count = ?, format = ?, ...; return
ProcUpdate(s) ==
  /\ req[s].pc = "p_update"
  /\ \E ok \in StoreOutcomes :
       /\ Spend(ok)
       /\ LET d == req[s].doc
              r == IF ok THEN Done(req[s], "ok", "processed")
                   ELSE ProcessThrows(req[s], "D1 update failed", TRUE)
          IN  /\ documents' = IF ok /\ Exists(d)
                              THEN [documents EXCEPT ![d].status = "processed",
                                      ![d].page_count = Len(validPages(req[s].parsed.pages)),
                                      ![d].format = req[s].parsed.format,
                                      ![d].parsed_metadata = ParsedMeta]
                              ELSE documents
              /\ req' = [req EXCEPT ![s] = [r EXCEPT !.lastWrite = IF ok THEN "status" ELSE @]]
              /\ ProcessEnds(d, r, document_pages, document_chunks)
  /\ UNCHANGED <<r2, document_pages, document_chunks, nextPageId, nextChunkId, nextDoc, calls>>
  /\ UNCHANGED indexes
  /\ UNCHANGED outside

(* ----------------------------------------------------------------- delete *)
StartDelete(s, d) ==
  /\ Free(s)
  /\ calls < MaxCalls
  /\ calls' = calls + 1
  /\ req' = [req EXCEPT ![s] =
              [IdleReq EXCEPT !.op = "delete", !.pc = "d_get", !.doc = d, !.pre = Snapshot,
                              !.serial = calls + 1, !.beside = Beside(s)]]
  /\ UNCHANGED <<tables, faults, lastClean, failedRun>>
  /\ UNCHANGED indexes
  /\ UNCHANGED outside

\* const doc = await this.getDocument(documentId)  -- throws 'Document not found'
DelGet(s) ==
  /\ req[s].pc = "d_get"
  /\ \E ok \in StoreOutcomes :
       /\ Spend(ok)
       /\ req' = [req EXCEPT ![s] =
                   IF ~ok THEN [Done(@, "error", "D1 select failed") EXCEPT !.faulted = TRUE]
                   ELSE IF ~Exists(req[s].doc) THEN Done(@, "error", "Document not found")
                   ELSE [@ EXCEPT !.pc = "d_blob"]]
  /\ UNCHANGED <<tables, calls, lastClean, failedRun>>
  /\ UNCHANGED indexes
  /\ UNCHANGED outside

\* Mutant: a failure of the blob delete is rethrown to the caller of Delete
DelBlob_Rethrows(s) ==
  /\ req[s].pc = "d_blob"
  /\ \E ok \in StoreOutcomes :
       /\ Spend(ok)
       /\ IF ok
          THEN /\ r2' = r2Delete(r2, req[s].doc)
               /\ req' = [req EXCEPT ![s] = [@ EXCEPT !.pc = "d_row", !.deleteIssued = TRUE]]
          ELSE /\ UNCHANGED r2
               /\ req' = [req EXCEPT ![s] =
                           [Done(@, "error", "R2 delete failed") EXCEPT
                              !.deleteIssued = TRUE, !.deleteFailed = TRUE]]
  /\ UNCHANGED <<documents, document_pages, document_chunks, nextPageId, nextChunkId, nextDoc,
                 calls, lastClean, failedRun>>
  /\ UNCHANGED indexes
  /\ UNCHANGED outside

\* try { await this.r2.delete(doc.r2_key) } catch (error) { console.error(...) }
DelBlob(s) ==
  /\ req[s].pc = "d_blob"
  /\ \E ok \in StoreOutcomes :
       /\ Spend(ok)
       /\ IF ok
          THEN /\ r2' = r2Delete(r2, req[s].doc)
               /\ req' = [req EXCEPT ![s] = [@ EXCEPT !.pc = "d_row", !.deleteIssued = TRUE]]
          ELSE /\ UNCHANGED r2
               /\ req' = [req EXCEPT ![s] =
                           [@ EXCEPT !.pc = "d_row", !.deleteIssued = TRUE,
                                     !.deleteFailed = TRUE,
                                     !.logged = @ \cup {"Failed to delete R2 object"}]]
  /\ UNCHANGED <<documents, document_pages, document_chunks, nextPageId, nextChunkId, nextDoc,
                 calls, lastClean, failedRun>>
  /\ UNCHANGED indexes
  /\ UNCHANGED outside

\* DELETE FROM documents WHERE id = ?  -- pages and chunks go by ON DELETE CASCADE
DelRow(s) ==
  /\ req[s].pc = "d_row"
  /\ \E ok \in StoreOutcomes :
       /\ Spend(ok)
       /\ LET d == req[s].doc
          IN  IF ok
              THEN /\ documents' = [k \in DOMAIN documents \ {d} |-> documents[k]]
                   /\ document_pages' = document_pages \ PagesOf(d)
                   /\ document_chunks' = document_chunks \ ChunksOf(d)
                   /\ lastClean' = [lastClean EXCEPT ![d] = NoClean]
                   /\ failedRun' = [failedRun EXCEPT ![d] = FALSE]
                   /\ req' = [req EXCEPT ![s] = Done(@, "ok", "deleted")]
              ELSE /\ UNCHANGED <<documents, document_pages, document_chunks,
                                  lastClean, failedRun>>
                   /\ req' = [req EXCEPT ![s] =
                               [Done(@, "error", "D1 delete failed") EXCEPT !.faulted = TRUE]]
  /\ UNCHANGED <<r2, nextPageId, nextChunkId, nextDoc, calls>>
  /\ Triggers
  /\ UNCHANGED outside

(* ------------------------------------------------------------ save chunks *)
\* Chunk lists handed to saveDocumentChunks
ChunkLists == { << <<"x">>, <<"y">> >> }

\* saveDocumentChunks(documentId, chunks): chunkIndex counts from 0
StartSaveChunks(s, d, chunks) ==
  /\ Free(s)
  /\ calls < MaxCalls
  /\ calls' = calls + 1
  /\ req' = [req EXCEPT ![s] =
              [IdleReq EXCEPT !.op = "savechunks", !.pc = "s_insert", !.doc = d,
                              !.pre = Snapshot,
                              !.rows = [i \in 1..Len(chunks) |->
                                          [t |-> "chunk", n |-> i - 1, text |-> chunks[i]]]]]
  /\ UNCHANGED <<tables, faults, lastClean, failedRun>>
  /\ UNCHANGED indexes
  /\ UNCHANGED outside

\* await insertStmt.bind(documentId, chunk, chunkIndex++).run()
SaveChunksInsert(s) ==
  /\ req[s].pc = "s_insert"
  /\ \E ok \in StoreOutcomes :
       /\ Spend(ok)
       /\ LET d == req[s].doc
              row == req[s].rows[req[s].idx]
          IN  IF ok /\ Exists(d)
              THEN /\ document_chunks' = document_chunks \cup
                        {[id |-> nextChunkId, document_id |-> d, chunk_index |-> row.n,
                          chunk_text |-> row.text]}
                   /\ nextChunkId' = nextChunkId + 1
                   /\ lastClean' = [lastClean EXCEPT ![d] = NoClean]
                   /\ req' = [req EXCEPT ![s] =
                               IF req[s].idx = Len(req[s].rows) THEN Done(@, "ok", "inserted")
                               ELSE [@ EXCEPT !.idx = @ + 1]]
              ELSE /\ UNCHANGED <<document_chunks, nextChunkId, lastClean>>
                   /\ req' = [req EXCEPT ![s] =
                               IF ok THEN Done(@, "error", "FOREIGN KEY constraint failed")
                               ELSE [Done(@, "error", "D1 insert failed") EXCEPT
                                       !.faulted = TRUE]]
  /\ UNCHANGED <<r2, documents, document_pages, nextPageId, nextDoc, calls, failedRun>>
  /\ Triggers
  /\ UNCHANGED outside

(* ----------------------------------------------------------------- cutoff *)
\* The host ends a request between two of its statements (time or memory
\* ceiling, isolate eviction): none of its later statements, catch blocks
\* included, runs.
Cutoff(s) ==
  /\ Active(s)
  /\ faults < MaxFaults
  /\ faults' = faults + 1
  /\ LET r == [Done(req[s], "cutoff", "request ended by the host") EXCEPT !.faulted = TRUE]
     IN  /\ req' = [req EXCEPT ![s] = r]
         /\ IF req[s].op = "process"
            THEN ProcessEnds(req[s].doc, r, document_pages, document_chunks)
            ELSE UNCHANGED <<lastClean, failedRun>>
  /\ UNCHANGED <<tables, calls>>
  /\ UNCHANGED indexes
  /\ UNCHANGED outside

(* ---------------------------------------------------------- full-text index *)
\* The rows of a set in the order of their id, as SELECT hands them over
RECURSIVE RowsById(_)
RowsById(rows) ==
  IF rows = {} THEN <<>>
  ELSE LET first == CHOOSE x \in rows : \A y \in rows : x.id <= y.id
       IN  <<first>> \o RowsById(rows \ {first})

\* rebuildFTSIndex: initializeFTS and initializeChunkFTS find the tables and
\* triggers in place and create nothing.
StartRebuild(s) ==
  /\ Free(s)
  /\ calls < MaxCalls
  /\ calls' = calls + 1
  /\ req' = [req EXCEPT ![s] =
              [ExtReq EXCEPT !.op = "rebuild", !.pc = "b_clearpages", !.pre = Snapshot,
                              !.serial = calls + 1, !.beside = Beside(s),
                              !.ext.idx0 = Indexes,
                              !.ext.twice = /\ req[s].op = "rebuild" /\ req[s].pc = "done"
                                        /\ req[s].result.kind = "ok"
                                        /\ req[s].ext.left = Indexes]]
  /\ UNCHANGED <<tables, faults, lastClean, failedRun, indexes, outside>>

\* Mutant: the clearing statement names the source table
RebClearPages_SourceTable(s) ==
  /\ req[s].pc = "b_clearpages"
  /\ \E ok \in StoreOutcomes :
       /\ Spend(ok)
       /\ IF ok
          THEN /\ document_pages' = {}
               /\ req' = [req EXCEPT ![s] = [@ EXCEPT !.pc = "b_clearchunks"]]
          ELSE /\ UNCHANGED document_pages
               /\ req' = [req EXCEPT ![s] =
                           [Done(@, "error", "D1 delete failed") EXCEPT !.faulted = TRUE]]
  /\ UNCHANGED <<r2, documents, document_chunks, nextPageId, nextChunkId, nextDoc,
                 calls, lastClean, failedRun, outside>>
  /\ Triggers

\* await this.db.prepare(`DELETE FROM documents_fts`).run()
RebClearPages(s) ==
  /\ req[s].pc = "b_clearpages"
  /\ \E ok \in StoreOutcomes :
       /\ Spend(ok)
       /\ IF ok
          THEN /\ documents_fts' = {}
               /\ req' = [req EXCEPT ![s] = [@ EXCEPT !.pc = "b_clearchunks"]]
          ELSE /\ UNCHANGED documents_fts
               /\ req' = [req EXCEPT ![s] =
                           [Done(@, "error", "D1 delete failed") EXCEPT !.faulted = TRUE]]
  /\ UNCHANGED <<tables, calls, lastClean, failedRun, document_chunks_fts, outside>>

\* await this.db.prepare(`DELETE FROM document_chunks_fts`).run()
RebClearChunks(s) ==
  /\ req[s].pc = "b_clearchunks"
  /\ \E ok \in StoreOutcomes :
       /\ Spend(ok)
       /\ IF ok
          THEN /\ document_chunks_fts' = {}
               /\ req' = [req EXCEPT ![s] = [@ EXCEPT !.pc = "b_selpages"]]
          ELSE /\ UNCHANGED document_chunks_fts
               /\ req' = [req EXCEPT ![s] =
                           [Done(@, "error", "D1 delete failed") EXCEPT !.faulted = TRUE]]
  /\ UNCHANGED <<tables, calls, lastClean, failedRun, documents_fts, outside>>

\* SELECT dp.id as rowid, dp.document_id, d.filename, dp.content
\*   FROM document_pages dp JOIN documents d ON dp.document_id = d.id
RebuildPageEntries ==
  RowsById({[id |-> p.id, document_id |-> p.document_id, content |-> p.content] :
              p \in {q \in document_pages : Exists(q.document_id)}})

\* SELECT id as rowid, chunk_text FROM document_chunks
RebuildChunkEntries ==
  RowsById({[id |-> c.id, chunk_text |-> c.chunk_text] : c \in document_chunks})

\* The rebuild ends; it leaves the index contents `idx`.
RebuildDone(r, idx) == [Done(r, "ok", "rebuilt") EXCEPT !.ext.left = idx]

RebSelectPages(s) ==
  /\ req[s].pc = "b_selpages"
  /\ \E ok \in StoreOutcomes :
       /\ Spend(ok)
       /\ req' = [req EXCEPT ![s] =
                   IF ~ok THEN [Done(@, "error", "D1 select failed") EXCEPT !.faulted = TRUE]
                   ELSE [@ EXCEPT !.rows = RebuildPageEntries, !.idx = 1,
                                  !.pc = IF RebuildPageEntries = <<>> THEN "b_selchunks"
                                         ELSE "b_inspage"]]
  /\ UNCHANGED <<tables, calls, lastClean, failedRun, indexes, outside>>

\* INSERT INTO documents_fts(rowid, document_id, filename, content) VALUES (?, ?, ?, ?)
\* An entry whose rowid is already in the table fails the statement.
RebInsertPage(s) ==
  /\ req[s].pc = "b_inspage"
  /\ \E ok \in StoreOutcomes :
       /\ Spend(ok)
       /\ LET row == req[s].rows[req[s].idx]
              taken == \E e \in documents_fts : e.rowid = row.id
          IN  IF ok /\ ~taken
              THEN /\ documents_fts' = documents_fts \cup
                        {[rowid |-> row.id, document_id |-> row.document_id,
                          content |-> row.content]}
                   /\ req' = [req EXCEPT ![s] =
                               IF req[s].idx = Len(req[s].rows)
                               THEN [@ EXCEPT !.pc = "b_selchunks"]
                               ELSE [@ EXCEPT !.idx = @ + 1]]
              ELSE /\ UNCHANGED documents_fts
                   /\ req' = [req EXCEPT ![s] =
                               IF ok THEN Done(@, "error", "constraint failed")
                               ELSE [Done(@, "error", "D1 insert failed") EXCEPT
                                       !.faulted = TRUE]]
  /\ UNCHANGED <<tables, calls, lastClean, failedRun, document_chunks_fts, outside>>

RebSelectChunks(s) ==
  /\ req[s].pc = "b_selchunks"
  /\ \E ok \in StoreOutcomes :
       /\ Spend(ok)
       /\ req' = [req EXCEPT ![s] =
                   IF ~ok THEN [Done(@, "error", "D1 select failed") EXCEPT !.faulted = TRUE]
                   ELSE IF RebuildChunkEntries = <<>> THEN RebuildDone(@, Indexes)
                   ELSE [@ EXCEPT !.rows = RebuildChunkEntries, !.idx = 1,
                                  !.pc = "b_inschunk"]]
  /\ UNCHANGED <<tables, calls, lastClean, failedRun, indexes, outside>>

\* INSERT INTO document_chunks_fts(rowid, chunk_text) VALUES (?, ?)
RebInsertChunk(s) ==
  /\ req[s].pc = "b_inschunk"
  /\ \E ok \in StoreOutcomes :
       /\ Spend(ok)
       /\ LET row == req[s].rows[req[s].idx]
              taken == \E e \in document_chunks_fts : e.rowid = row.id
              after == document_chunks_fts \cup {[rowid |-> row.id, chunk_text |-> row.chunk_text]}
          IN  IF ok /\ ~taken
              THEN /\ document_chunks_fts' = after
                   /\ req' = [req EXCEPT ![s] =
                               IF req[s].idx = Len(req[s].rows)
                               THEN RebuildDone(@, [pages |-> documents_fts, chunks |-> after])
                               ELSE [@ EXCEPT !.idx = @ + 1]]
              ELSE /\ UNCHANGED document_chunks_fts
                   /\ req' = [req EXCEPT ![s] =
                               IF ok THEN Done(@, "error", "constraint failed")
                               ELSE [Done(@, "error", "D1 insert failed") EXCEPT
                                       !.faulted = TRUE]]
  /\ UNCHANGED <<tables, calls, lastClean, failedRun, documents_fts, outside>>

\* checkFTSHealth: the table exists; four COUNT(*) queries; any of them
\* throwing is caught and reported as { exists: false, healthy: false }.
StartHealth(s) ==
  /\ Free(s)
  /\ calls < MaxCalls
  /\ calls' = calls + 1
  /\ req' = [req EXCEPT ![s] =
              [ExtReq EXCEPT !.op = "health", !.pc = "h_count", !.pre = Snapshot,
                              !.ext.idx0 = Indexes]]
  /\ UNCHANGED <<tables, faults, lastClean, failedRun, indexes, outside>>

\* const healthy = ftsCount.count === pagesCount.count
FTSHealth ==
  [exists |-> TRUE,
   healthy |-> Cardinality(documents_fts) = Cardinality(document_pages),
   ftsCount |-> Cardinality(documents_fts), pagesCount |-> Cardinality(document_pages),
   chunkFtsCount |-> Cardinality(document_chunks_fts),
   chunkCount |-> Cardinality(document_chunks)]

HealthCount(s) ==
  /\ req[s].pc = "h_count"
  /\ \E ok \in StoreOutcomes :
       /\ Spend(ok)
       /\ req' = [req EXCEPT ![s] =
                   IF ok THEN [Done(@, "ok", "health") EXCEPT !.ext.health = FTSHealth]
                   ELSE [Done(@, "ok", "health") EXCEPT !.ext.health = NoHealth,
                                                       !.faulted = TRUE]]
  /\ UNCHANGED <<tables, calls, lastClean, failedRun, indexes, outside>>

\* The terms the full-text tokenizer takes from a stored text
Terms(content) == {content[i] : i \in 1..Len(content)}

\* The terms callers search for
SearchQueries == {"a", UploadPlaceholder[1]}

\* searchDocuments(query): the health check comes first and only logs
StartSearch(s, q) ==
  /\ Free(s)
  /\ calls < MaxCalls
  /\ calls' = calls + 1
  /\ req' = [req EXCEPT ![s] =
              [ExtReq EXCEPT !.op = "search", !.pc = "q_health", !.pre = Snapshot,
                              !.ext.idx0 = Indexes, !.ext.question = <<q>>]]
  /\ UNCHANGED <<tables, faults, lastClean, failedRun, indexes, outside>>

\* const ftsHealth = await this.checkFTSHealth(); if (!ftsHealth.exists) throw ...
\* if (!ftsHealth.healthy) console.warn(...)
SearchHealth(s) ==
  /\ req[s].pc = "q_health"
  /\ \E ok \in StoreOutcomes :
       /\ Spend(ok)
       /\ req' = [req EXCEPT ![s] =
                   IF ~ok
                   THEN [Done(@, "error", "Search failed: Search index is not initialized")
                           EXCEPT !.ext.health = NoHealth, !.faulted = TRUE]
                   ELSE [@ EXCEPT !.pc = "q_match", !.ext.health = FTSHealth,
                                  !.logged = IF FTSHealth.healthy THEN @
                                             ELSE @ \cup {"FTS index is out of sync"}]]
  /\ UNCHANGED <<tables, calls, lastClean, failedRun, indexes, outside>>

\* SELECT ... FROM documents_fts JOIN document_pages dp ON documents_fts.rowid = dp.id
\*   JOIN documents d ON dp.document_id = d.id WHERE documents_fts MATCH ?
SearchMatches(q) ==
  {[documentId |-> p.document_id, pageNumber |-> p.page_number, text |-> p.content] :
     p \in {x \in document_pages :
              /\ Exists(x.document_id)
              /\ \E e \in documents_fts : e.rowid = x.id /\ q \in Terms(e.content)}}

SearchMatch(s) ==
  /\ req[s].pc = "q_match"
  /\ \E ok \in StoreOutcomes :
       /\ Spend(ok)
       /\ req' = [req EXCEPT ![s] =
                   IF ok THEN [Done(@, "ok", "results") EXCEPT
                                 !.ext.found = SearchMatches(req[s].ext.question[1])]
                   ELSE [Done(@, "error", "Search failed: D1 select failed") EXCEPT
                           !.faulted = TRUE]]
  /\ UNCHANGED <<tables, calls, lastClean, failedRun, indexes, outside>>

\* initializeFTS, run when a DocumentManager is constructed, finds no
\* documents_fts table (dropped by hand or by a migration that stopped) and
\* creates it: empty, whatever rows document_pages holds.
RecreatePageIndex ==
  /\ \A s \in SeqSlots : Free(s)
  /\ faults < MaxFaults
  /\ faults' = faults + 1
  /\ documents_fts # {}
  /\ documents_fts' = {}
  /\ UNCHANGED <<tables, req, calls, lastClean, failedRun, document_chunks_fts, outside>>

\* initializeChunkFTS likewise creates document_chunks_fts empty
RecreateChunkIndex ==
  /\ \A s \in SeqSlots : Free(s)
  /\ faults < MaxFaults
  /\ faults' = faults + 1
  /\ document_chunks_fts # {}
  /\ document_chunks_fts' = {}
  /\ UNCHANGED <<tables, req, calls, lastClean, failedRun, documents_fts, outside>>

RebuildStep(s) ==
  \/ StartRebuild(s)
  \/ RebClearPages(s)
  \/ RebClearChunks(s)
  \/ RebSelectPages(s)
  \/ RebInsertPage(s)
  \/ RebSelectChunks(s)
  \/ RebInsertChunk(s)

HealthStep(s) ==
  \/ StartHealth(s)
  \/ HealthCount(s)

SearchStep(s) ==
  \/ \E q \in SearchQueries : StartSearch(s, q)
  \/ SearchHealth(s)
  \/ SearchMatch(s)

(* ------------------------------------------------------------------- spec *)
\* The ids a caller passes: the ids given out so far, and one never given out
CallerIds == 1..Min2(nextDoc + 1, MaxDocs)

UploadStep(s) ==
  \/ \E u \in UploadInputs : StartUpload(s, u[1], u[2], u[3])
  \/ UploadValidate(s)
  \/ UploadPut(s)
  \/ UploadInsertDoc(s)
  \/ UploadInsertPage(s)
  \/ UploadCleanup(s)
  \/ UploadMarkError(s)

ProcessStep(s) ==
  \/ \E d \in CallerIds : StartProcess(s, d)
  \/ ProcSelect(s)
  \/ ProcGetFile(s)
  \/ ProcParse(s)
  \/ ProcMarkError(s)
  \/ ProcDeletePages(s)
  \/ ProcDeleteChunks(s)
  \/ ProcNoContent(s)
  \/ ProcInsert(s)
  \/ ProcUpdate(s)

DeleteStep(s) ==
  \/ \E d \in CallerIds : StartDelete(s, d)
  \/ DelGet(s)
  \/ DelBlob(s)
  \/ DelRow(s)

SaveChunksStep(s) ==
  \/ \E d \in CallerIds, chunks \in ChunkLists : StartSaveChunks(s, d, chunks)
  \/ SaveChunksInsert(s)

\* Requests served one after the other
Next ==
  \E s \in SeqSlots :
    \/ UploadStep(s)
    \/ ProcessStep(s)
    \/ DeleteStep(s)
    \/ SaveChunksStep(s)
    \/ Cutoff(s)

Spec == Init /\ [][Next]_vars

\* The lexical index: uploads, chunk saves and deletes write rows through the
\* triggers; rebuild, health check and search work on the index; the index
\* tables can be created anew out of band.
NextIndex ==
  \/ \E s \in SeqSlots :
       \/ UploadStep(s)
       \/ DeleteStep(s)
       \/ SaveChunksStep(s)
       \/ RebuildStep(s)
       \/ HealthStep(s)
       \/ SearchStep(s)
  \/ RecreatePageIndex
  \/ RecreateChunkIndex

SpecIndex == Init /\ [][NextIndex]_vars

\* Index repair while documents are written: one caller uploads, processes,
\* saves chunks and deletes, another rebuilds the indexes; each awaited
\* statement is a step, and the steps of the two interleave.
NextRebuildRace ==
  \/ \E s \in SeqSlots :
       \/ UploadStep(s)
       \/ ProcessStep(s)
       \/ DeleteStep(s)
       \/ SaveChunksStep(s)
  \/ RebuildStep("r2")

SpecRebuildRace == Init /\ [][NextRebuildRace]_vars

\* Two callers served at the same time, each on a document of its own: the
\* caller in slot r1 processes and deletes id 1, which is uploaded already,
\* the caller in slot r2 uploads, processes and deletes id 2.
OwnDoc(s) == IF s = "r1" THEN 1 ELSE 2

\* uploadDocument when the id made for the upload is d: no row and no blob
\* has that id
StartUploadAs(s, d, f, fn, ct) ==
  /\ Free(s)
  /\ calls < MaxCalls
  /\ ~Exists(d)
  /\ ~HasBlob(d)
  /\ calls' = calls + 1
  /\ req' = [req EXCEPT ![s] =
              [IdleReq EXCEPT !.op = "upload", !.pc = "u_validate", !.doc = d,
                              !.serial = calls + 1, !.beside = Beside(s),
                              !.file = f, !.filename = fn, !.contentType = ct,
                              !.pre = Snapshot]]
  /\ UNCHANGED <<tables, faults, lastClean, failedRun, indexes, outside>>

\* The files the second caller uploads: a password-protected PDF and a text
\* of blanks
TwoDocUploads ==
  {<<8, "report.pdf", "application/pdf">>, <<4, "notes.txt", "text/plain">>}

\* The state an Upload of file f leaves with no other document stored: blob,
\* Document row, placeholder Page row and its index entry.  `calls` counts
\* the requests begun from here on.
UploadedAlone(f, fn, ct) ==
  /\ r2 = [k \in {1} |-> f]
  /\ documents = [k \in {1} |->
                    [filename |-> fn, content_type |-> ct,
                     r2_key |-> 1, page_count |-> 1, status |-> "uploaded",
                     format |-> "", parsed_metadata |-> NoMeta]]
  /\ document_pages = {PlaceholderPageRow(1, 1)}
  /\ document_chunks = {}
  /\ nextPageId = 2
  /\ nextChunkId = 1
  /\ nextDoc = 1
  /\ req = [s \in Slots |-> IdleReq]
  /\ calls = 0
  /\ faults = 0
  /\ lastClean = [d \in DocIds |-> NoClean]
  /\ failedRun = [d \in DocIds |-> FALSE]
  /\ documents_fts = documents_fts_insert({}, {PlaceholderPageRow(1, 1)})
  /\ document_chunks_fts = {}
  /\ DOC_INDEX = {}
  /\ hasDocIndex = FALSE
  /\ call = NoCall

\* Document 1 is the image-only PDF
InitTwoDocs == UploadedAlone(5, "report.pdf", "application/pdf")

NextTwoDocs ==
  \/ \E u \in TwoDocUploads : StartUploadAs("r2", OwnDoc("r2"), u[1], u[2], u[3])
  \/ \E s \in Slots :
    \/ UploadValidate(s)
    \/ UploadPut(s)
    \/ UploadInsertDoc(s)
    \/ UploadInsertPage(s)
    \/ UploadCleanup(s)
    \/ UploadMarkError(s)
    \/ StartProcess(s, OwnDoc(s))
    \/ ProcSelect(s)
    \/ ProcGetFile(s)
    \/ ProcParse(s)
    \/ ProcMarkError(s)
    \/ ProcDeletePages(s)
    \/ ProcDeleteChunks(s)
    \/ ProcNoContent(s)
    \/ ProcInsert(s)
    \/ ProcUpdate(s)
    \/ StartDelete(s, OwnDoc(s))
    \/ DelGet(s)
    \/ DelBlob(s)
    \/ DelRow(s)

SpecTwoDocs == InitTwoDocs /\ [][NextTwoDocs]_vars

\* Two callers process the one document at the same time.  The document is
\* the image-only PDF, the password-protected PDF or the text of blanks.
InitProcessRace ==
  \E u \in TwoDocUploads \cup {<<5, "report.pdf", "application/pdf">>} :
    UploadedAlone(u[1], u[2], u[3])

NextProcessRace ==
  \E s \in Slots : ProcessStep(s)

SpecProcessRace == InitProcessRace /\ [][NextProcessRace]_vars

(* -------------------------------------------------------------- retrieval *)
Letters ==
  <<"a", "b", "c", "d", "e", "f", "g", "h", "i", "j", "k", "l", "m",
    "n", "o", "p", "q", "r", "s", "t", "u", "v", "w", "x", "y", "z">>
Capitals ==
  <<"A", "B", "C", "D", "E", "F", "G", "H", "I", "J", "K", "L", "M",
    "N", "O", "P", "Q", "R", "S", "T", "U", "V", "W", "X", "Y", "Z">>
Digits == {"0", "1", "2", "3", "4", "5", "6", "7", "8", "9"}

\* String.prototype.toLowerCase, and LOWER() of the store, character by character
LowerChar(c) ==
  IF \E i \in DOMAIN Capitals : Capitals[i] = c
  THEN Letters[CHOOSE i \in DOMAIN Capitals : Capitals[i] = c]
  ELSE c
toLowerCase(t) == [i \in 1..Len(t) |-> LowerChar(t[i])]

\* const STOP_WORDS = new Set([...])
STOP_WORDS ==
  {<<"w", "h", "a", "t">>, <<"i", "s">>, <<"t", "h", "e">>, <<"f", "o", "r">>,
   <<"a", "n", "d">>, <<"o", "r">>, <<"a">>, <<"a", "n">>, <<"t", "o">>, <<"o", "f">>,
   <<"i", "n">>, <<"o", "n">>, <<"a", "t">>, <<"f", "r", "o", "m">>,
   <<"d", "o", "e", "s">>, <<"d", "o">>, <<"b", "e">>, <<"a", "r", "e">>, <<"a", "m">>,
   <<"i">>, <<"y", "o", "u">>, <<"w", "e">>, <<"t", "h", "e", "y">>, <<"i", "t">>,
   <<"t", "h", "i", "s">>, <<"t", "h", "a", "t">>, <<"t", "h", "e", "s", "e">>,
   <<"t", "h", "o", "s", "e">>, <<"t", "e", "l", "l">>, <<"m", "e">>,
   <<"a", "b", "o", "u", "t">>, <<"p", "l", "e", "a", "s", "e">>,
   <<"m", "a", "x", "i", "m", "u", "m">>, <<"m", "i", "n", "i", "m", "u", "m">>,
   <<"l", "e", "n", "g", "t", "h">>}

\* .replace(/[^a-z0-9\s]/g, ' ')
ReplaceNonWord(t) ==
  [i \in 1..Len(t) |->
     IF \/ \E k \in DOMAIN Letters : Letters[k] = t[i]
        \/ t[i] \in Digits
        \/ t[i] \in Whitespace
     THEN t[i] ELSE " "]

\* .split(/\s+/).filter(Boolean)
RECURSIVE SplitWs(_)
SplitWs(t) ==
  LET u == DropLeadingWs(t)
  IN  IF u = <<>> THEN <<>>
      ELSE LET n == IF \E i \in 1..Len(u) : u[i] \in Whitespace
                    THEN (CHOOSE i \in 1..Len(u) :
                            /\ u[i] \in Whitespace
                            /\ \A j \in 1..(i - 1) : u[j] \notin Whitespace) - 1
                    ELSE Len(u)
           IN  <<SubSeq(u, 1, n)>> \o SplitWs(SubSeq(u, n + 1, Len(u)))

\* The for loop of extractKeywords over `parts`
RECURSIVE KeepKeywords(_, _)
KeepKeywords(parts, keywords) ==
  IF parts = <<>> THEN keywords
  ELSE LET word == Head(parts)
       IN  KeepKeywords(Tail(parts),
             IF word \in STOP_WORDS THEN keywords
             ELSE IF Len(word) < 3 THEN keywords
             ELSE IF \E k \in DOMAIN keywords : keywords[k] = word THEN keywords
             ELSE Append(keywords, word))

extractKeywords(question, maxKeywords) ==
  LET cleaned  == ReplaceNonWord(toLowerCase(question))
      keywords == KeepKeywords(SplitWs(cleaned), <<>>)
  IN  IF keywords = <<>>
      THEN (IF Trim(cleaned) = <<>> THEN <<>> ELSE <<Trim(cleaned)>>)
      ELSE SubSeq(keywords, 1, Min2(maxKeywords, Len(keywords)))

\* INSTR(haystack, needle) > 0
Contains(haystack, needle) ==
  \E i \in 0..(Len(haystack) - Len(needle)) : SubSeq(haystack, i + 1, i + Len(needle)) = needle

\* What retrieval hands back for a chunk row: row.filename comes from the
\* documents row (searchChunksSimple) or from the record's metadata
\* (searchChunksVector)
Excerpt(text, documentId, chunkIndex, filename) ==
  [text |-> text, documentId |-> documentId, chunkIndex |-> chunkIndex, filename |-> filename]

\* FROM document_chunks dc JOIN documents d ON d.id = dc.document_id
\*   WHERE INSTR(LOWER(dc.chunk_text), ?1) > 0 OR ...
SimpleMatching(question) ==
  LET keywords == extractKeywords(question, MaxKeywords)
  IN  {c \in document_chunks :
         /\ Exists(c.document_id)
         /\ \E k \in DOMAIN keywords : Contains(toLowerCase(c.chunk_text), keywords[k])}

\* searchChunksSimple(env, question, limit): the results the statement can
\* give.  LIMIT keeps `limit` of the matching rows, whichever the store picks.
searchChunksSimple(question, limit) ==
  IF extractKeywords(question, MaxKeywords) = <<>> THEN {{}}
  ELSE LET matching == SimpleMatching(question)
       IN  {{Excerpt(c.chunk_text, c.document_id, c.chunk_index,
                     documents[c.document_id].filename) : c \in rows} :
              rows \in {sub \in SUBSET matching :
                          Cardinality(sub) = Min2(limit, Cardinality(matching))}}

\* Mutant: a chunk the store no longer holds is answered from a copy of its text
fetchChunkText_Cached(documentId, chunkIndex) ==
  LET rows == {c \in document_chunks :
                 c.document_id = documentId /\ c.chunk_index = chunkIndex}
  IN  IF rows = {} THEN {<<"x">>} ELSE {c.chunk_text : c \in rows}

\* fetchChunkText: SELECT chunk_text ... WHERE document_id = ?1 AND
\* chunk_index = ?2, .first(); row?.chunk_text || ''.  The texts it can give.
fetchChunkText(documentId, chunkIndex) ==
  LET rows == {c \in document_chunks :
                 c.document_id = documentId /\ c.chunk_index = chunkIndex}
  IN  IF rows = {} THEN {<<>>} ELSE {c.chunk_text : c \in rows}

\* The records of the vector index in the order of their ids
RECURSIVE RecordsById(_)
RecordsById(records) ==
  IF records = {} THEN <<>>
  ELSE LET first == CHOOSE x \in records :
                      \A y \in records :
                        \/ x.documentId < y.documentId
                        \/ x.documentId = y.documentId /\ x.chunkIndex <= y.chunkIndex
       IN  <<first>> \o RecordsById(records \ {first})

\* The questions put to /ask, after (body?.question || '').toString().trim()
AskQuestions == {<<"x">>, <<"X", "?">>, <<"?">>}

\* POST /ask with a question; OPENAI_API_KEY is configured
StartAsk(s, q) ==
  /\ Free(s)
  /\ calls < MaxCalls
  /\ calls' = calls + 1
  /\ req' = [req EXCEPT ![s] =
              [ExtReq EXCEPT !.op = "ask", !.pc = "a_vector", !.ext.question = q,
                              !.pre = Snapshot]]
  /\ UNCHANGED <<tables, faults, lastClean, failedRun, indexes, outside>>

\* catch (searchError) { console.error(...); chunks = await searchChunksSimple(...) }
AskCatch(r) ==
  [r EXCEPT !.pc = "a_simple", !.ext.caught = TRUE, !.faulted = TRUE, !.ext.found = {},
            !.logged = @ \cup {"Search failed in /ask, falling back to keyword search only"}]

\* Mutant: a failure of the embedding call goes to the caller
AskVector_Throws(s) ==
  /\ req[s].pc = "a_vector"
  /\ IF ~hasDocIndex
     THEN /\ req' = [req EXCEPT ![s] = [@ EXCEPT !.pc = "a_simple", !.ext.vector = "unconfigured"]]
          /\ UNCHANGED faults
     ELSE \E ok \in StoreOutcomes :
            /\ Spend(ok)
            /\ req' = [req EXCEPT ![s] =
                        IF ok THEN [@ EXCEPT !.pc = "a_query"]
                        ELSE [Done(@, "error", "Failed to answer question") EXCEPT
                                !.ext.vector = "failed", !.faulted = TRUE]]
  /\ UNCHANGED <<tables, calls, lastClean, failedRun, indexes, outside>>

\* if (env.DOC_INDEX) { chunks = await searchChunksVector(env, question, 8) }
\* searchChunksVector: const embedding = await embedText(env, query)
AskVector(s) ==
  /\ req[s].pc = "a_vector"
  /\ IF ~hasDocIndex
     THEN /\ req' = [req EXCEPT ![s] = [@ EXCEPT !.pc = "a_simple", !.ext.vector = "unconfigured"]]
          /\ UNCHANGED faults
     ELSE \E ok \in StoreOutcomes :
            /\ Spend(ok)
            /\ req' = [req EXCEPT ![s] =
                        IF ok THEN [@ EXCEPT !.pc = "a_query"]
                        ELSE [AskCatch(@) EXCEPT !.ext.vector = "failed"]]
  /\ UNCHANGED <<tables, calls, lastClean, failedRun, indexes, outside>>

\* const result = await env.DOC_INDEX.query({ vector, topK, ... })
\* const matches = result.matches || []
AskQuery(s) ==
  /\ req[s].pc = "a_query"
  /\ \E ok \in StoreOutcomes :
       /\ Spend(ok)
       /\ req' = [req EXCEPT ![s] =
                   IF ~ok THEN [AskCatch(@) EXCEPT !.ext.vector = "failed"]
                   ELSE LET all == RecordsById(DOC_INDEX)
                            matches == SubSeq(all, 1, Min2(TopK, Len(all)))
                        IN  IF matches = <<>>
                            THEN [@ EXCEPT !.pc = "a_simple", !.ext.vector = "none"]
                            ELSE [@ EXCEPT !.pc = "a_fetch", !.rows = matches, !.idx = 1]]
  /\ UNCHANGED <<tables, calls, lastClean, failedRun, indexes, outside>>

\* for (const match of matches): text = metadata.chunk_text || '' (the records
\* carry no chunk_text), fetchChunkText, if (!text) continue, chunks.push(...);
\* after the loop the route tests chunks.length === 0
AskFetch(s) ==
  /\ req[s].pc = "a_fetch"
  /\ \E ok \in StoreOutcomes :
       /\ Spend(ok)
       /\ LET m == req[s].rows[req[s].idx]
          IN  \E text \in fetchChunkText(m.documentId, m.chunkIndex) :
                LET chunks == IF text = <<>> THEN req[s].ext.found
                              ELSE req[s].ext.found \cup
                                     {Excerpt(text, m.documentId, m.chunkIndex, m.filename)}
                IN  req' = [req EXCEPT ![s] =
                             IF ~ok THEN [AskCatch(@) EXCEPT !.ext.vector = "failed"]
                             ELSE IF req[s].idx < Len(req[s].rows)
                               THEN [@ EXCEPT !.idx = @ + 1, !.ext.found = chunks]
                             ELSE IF chunks = {}
                               THEN [@ EXCEPT !.pc = "a_simple", !.ext.vector = "none"]
                             ELSE [Done(@, "ok", "excerpts") EXCEPT
                                     !.ext.found = chunks, !.ext.vector = "some", !.ext.via = "vector"]]
  /\ UNCHANGED <<tables, calls, lastClean, failedRun, indexes, outside>>

\* chunks = await searchChunksSimple(env, question, 8): inside the try, where
\* a throw leads to the catch and its own searchChunksSimple, or inside the
\* catch, where a throw reaches the route's outer catch (status 500)
AskSimple(s) ==
  /\ req[s].pc = "a_simple"
  /\ \E ok \in StoreOutcomes :
       /\ Spend(ok)
       /\ IF ok
          THEN \E chunks \in searchChunksSimple(req[s].ext.question, TopK) :
                 req' = [req EXCEPT ![s] =
                          [Done(@, "ok", "excerpts") EXCEPT !.ext.found = chunks, !.ext.via = "simple"]]
          ELSE req' = [req EXCEPT ![s] =
                        IF req[s].ext.caught
                        THEN [Done(@, "error", "Failed to answer question") EXCEPT
                                !.ext.lexThrows = @ + 1, !.faulted = TRUE]
                        ELSE [AskCatch(@) EXCEPT !.ext.lexThrows = @ + 1]]
  /\ UNCHANGED <<tables, calls, lastClean, failedRun, indexes, outside>>

AskStep(s) ==
  \/ \E q \in AskQuestions : StartAsk(s, q)
  \/ AskVector(s)
  \/ AskQuery(s)
  \/ AskFetch(s)
  \/ AskSimple(s)

\* getDocument(documentId)
StartLookup(s, d) ==
  /\ Free(s)
  /\ calls < MaxCalls
  /\ calls' = calls + 1
  /\ req' = [req EXCEPT ![s] =
              [IdleReq EXCEPT !.op = "lookup", !.pc = "g_select", !.doc = d, !.pre = Snapshot]]
  /\ UNCHANGED <<tables, faults, lastClean, failedRun, indexes, outside>>

\* SELECT * FROM documents WHERE id = ?; if (!doc) throw new Error('Document not found')
LookupSelect(s) ==
  /\ req[s].pc = "g_select"
  /\ \E ok \in StoreOutcomes :
       /\ Spend(ok)
       /\ req' = [req EXCEPT ![s] =
                   IF ~ok THEN [Done(@, "error", "D1 select failed") EXCEPT !.faulted = TRUE]
                   ELSE IF ~Exists(req[s].doc) THEN Done(@, "error", "Document not found")
                   ELSE Done(@, "ok", "document")]
  /\ UNCHANGED <<tables, calls, lastClean, failedRun, indexes, outside>>

LookupStep(s) ==
  \/ \E d \in CallerIds : StartLookup(s, d)
  \/ LookupSelect(s)

(* -------------------------------------------------------------- ingestion *)
\* One pass of the while loop of splitIntoChunks at `start`: the chunk it
\* pushes (empty when nothing is pushed), whether the loop breaks, and the
\* next start.
SplitWindow(text, start, chunkSize, overlap) ==
  LET end == Min2(start + chunkSize, Len(text))
  IN  [chunk |-> Trim(Slice(text, start, end)),
       last  |-> end = Len(text),
       next  |-> Max2(end - overlap, 0)]

RECURSIVE SplitLoop(_, _, _, _, _)
SplitLoop(text, start, chunkSize, overlap, chunks) ==
  IF ~(start < Len(text)) THEN chunks
  ELSE LET w == SplitWindow(text, start, chunkSize, overlap)
           pushed == IF w.chunk # <<>> THEN Append(chunks, w.chunk) ELSE chunks
       IN  IF w.last THEN pushed
           ELSE SplitLoop(text, w.next, chunkSize, overlap, pushed)

\* splitIntoChunks(text, chunkSize = 1500, overlap = 200)
splitIntoChunks(text) == SplitLoop(text, 0, SplitChunkSize, SplitOverlap, <<>>)

\* The texts posted to /documents/text
IngestTexts == {<<"x">>, <<"X", " ", "y">>, <<" ">>}

\* POST /documents/text: ingestDocumentText(documentManager, body)
StartIngest(s, text) ==
  /\ Free(s)
  /\ calls < MaxCalls
  /\ nextDoc < MaxDocs \/ Trim(text) = <<>>
  /\ calls' = calls + 1
  /\ req' = [req EXCEPT ![s] =
              [ExtReq EXCEPT !.op = "ingest", !.pc = "i_options", !.doc = nextDoc + 1,
                              !.ext.question = text, !.filename = "notes.txt",
                              !.contentType = "text/plain", !.pre = Snapshot]]
  /\ UNCHANGED <<tables, faults, lastClean, failedRun, indexes, outside>>

\* buildTextIngestionOptions: if (!text.trim()) throw ... statusCode 400
IngestOptions(s) ==
  /\ req[s].pc = "i_options"
  /\ req' = [req EXCEPT ![s] =
              IF Trim(req[s].ext.question) = <<>>
              THEN [Done(@, "error", "'text' is required and cannot be empty") EXCEPT
                      !.reject = "400"]
              ELSE [@ EXCEPT !.pc = "i_doc"]]
  /\ UNCHANGED <<tables, calls, faults, lastClean, failedRun, indexes, outside>>

\* documentManager.ingestTextDocument(options), first part: the Document row
\* is stored under a new id and the text is cut into chunks.
IngestInsertDoc(s) ==
  /\ req[s].pc = "i_doc"
  /\ \E ok \in StoreOutcomes :
       /\ Spend(ok)
       /\ IF ok
          THEN /\ documents' = [k \in DOMAIN documents \cup {req[s].doc} |->
                     IF k = req[s].doc
                     THEN [filename |-> req[s].filename, content_type |-> req[s].contentType,
                           r2_key |-> req[s].doc, page_count |-> 0, status |-> "uploaded",
                           format |-> "", parsed_metadata |-> NoMeta]
                     ELSE documents[k]]
               /\ nextDoc' = nextDoc + 1
               /\ LET chunks == splitIntoChunks(req[s].ext.question)
                  IN  req' = [req EXCEPT ![s] =
                               [@ EXCEPT !.pc = "i_chunks", !.idx = 1,
                                         !.rows = [i \in 1..Len(chunks) |->
                                                     [t |-> "chunk", n |-> i - 1,
                                                      text |-> chunks[i]]]]]
          ELSE /\ UNCHANGED <<documents, nextDoc>>
               /\ req' = [req EXCEPT ![s] =
                           [Done(@, "error", "D1 insert documents failed") EXCEPT
                              !.faulted = TRUE]]
  /\ UNCHANGED <<r2, document_pages, document_chunks, nextPageId, nextChunkId,
                 calls, lastClean, failedRun, indexes, outside>>

\* ingestTextDocument, second part: saveDocumentChunks(documentId, chunks):
\* await insertStmt.bind(documentId, chunk, chunkIndex++).run()
IngestInsertChunk(s) ==
  /\ req[s].pc = "i_chunks"
  /\ \E ok \in StoreOutcomes :
       /\ Spend(ok)
       /\ LET d == req[s].doc
              row == req[s].rows[req[s].idx]
          IN  IF ok
              THEN /\ document_chunks' = document_chunks \cup
                        {[id |-> nextChunkId, document_id |-> d, chunk_index |-> row.n,
                          chunk_text |-> row.text]}
                   /\ nextChunkId' = nextChunkId + 1
                   /\ req' = [req EXCEPT ![s] =
                               IF req[s].idx = Len(req[s].rows)
                               THEN [@ EXCEPT !.pc = "i_upsert",
                                              !.ext.mid = [Snapshot EXCEPT
                                                         !.chunks = document_chunks']]
                               ELSE [@ EXCEPT !.idx = @ + 1]]
              ELSE /\ UNCHANGED <<document_chunks, nextChunkId>>
                   /\ req' = [req EXCEPT ![s] =
                               [Done(@, "error", "D1 insert failed") EXCEPT !.faulted = TRUE]]
  /\ UNCHANGED <<r2, documents, document_pages, nextPageId, nextDoc, calls,
                 lastClean, failedRun>>
  /\ Triggers
  /\ UNCHANGED outside

\* The route answers 201 { ok: true, documentId, chunksInserted, ... }
IngestResponds(r, upsert) ==
  [Done(r, "ok", "201") EXCEPT !.ext.upsert = upsert, !.ext.after = Snapshot]

\* catch (vectorError) { console.error('Vector upsert error (ignored):', vectorError) }
IngestCatch(r) ==
  [IngestResponds(r, "failed") EXCEPT
     !.faulted = TRUE, !.logged = @ \cup {"Vector upsert error (ignored)"}]

\* upsertVectorsForDocument: if (!env.DOC_INDEX) return; SELECT chunk_text,
\* page_number, chunk_index FROM document_chunks WHERE document_id = ?1; rows
\* whose text is empty or blank are passed over
UpsertSelect(s) ==
  /\ req[s].pc = "i_upsert"
  /\ IF ~hasDocIndex
     THEN /\ req' = [req EXCEPT ![s] = IngestResponds(@, "unconfigured")]
          /\ UNCHANGED faults
     ELSE \E ok \in StoreOutcomes :
            /\ Spend(ok)
            /\ LET rows == SelectSeq(RowsById(ChunksOf(req[s].doc)),
                                     LAMBDA c : Trim(c.chunk_text) # <<>>)
               IN  req' = [req EXCEPT ![s] =
                            IF ~ok THEN IngestCatch(@)
                            ELSE IF rows = <<>> THEN IngestResponds(@, "nothing")
                            ELSE [@ EXCEPT !.pc = "i_embed", !.rows = rows, !.idx = 1]]
  /\ UNCHANGED <<tables, calls, lastClean, failedRun, indexes, outside>>

\* Mutant: a failure of the embedding call fails the ingestion request
UpsertEmbed_Propagates(s) ==
  /\ req[s].pc = "i_embed"
  /\ \E ok \in StoreOutcomes :
       /\ Spend(ok)
       /\ req' = [req EXCEPT ![s] =
                   IF ~ok THEN [Done(@, "error", "OpenAI embeddings error") EXCEPT
                                  !.ext.upsert = "failed", !.faulted = TRUE, !.ext.after = Snapshot]
                   ELSE IF req[s].idx < Len(req[s].rows) THEN [@ EXCEPT !.idx = @ + 1]
                   ELSE [@ EXCEPT !.pc = "i_send"]]
  /\ UNCHANGED <<tables, calls, lastClean, failedRun, indexes, outside>>

\* const embedding = await embedText(env, text), once per chunk
UpsertEmbed(s) ==
  /\ req[s].pc = "i_embed"
  /\ \E ok \in StoreOutcomes :
       /\ Spend(ok)
       /\ req' = [req EXCEPT ![s] =
                   IF ~ok THEN IngestCatch(@)
                   ELSE IF req[s].idx < Len(req[s].rows) THEN [@ EXCEPT !.idx = @ + 1]
                   ELSE [@ EXCEPT !.pc = "i_send"]]
  /\ UNCHANGED <<tables, calls, lastClean, failedRun, indexes, outside>>

\* The vectors built from the rows: id `${documentId}::${row.chunk_index}`
VectorsOf(d, filename, rows) ==
  {[documentId |-> d, chunkIndex |-> rows[i].chunk_index, filename |-> filename] :
     i \in DOMAIN rows}

\* DOC_INDEX.upsert(vectors): a record replaces the record of the same id
Upserted(index, vectors) ==
  {r \in index : ~\E v \in vectors :
                    v.documentId = r.documentId /\ v.chunkIndex = r.chunkIndex}
  \cup vectors

\* if (vectors.length && env.DOC_INDEX) await env.DOC_INDEX.upsert(vectors)
UpsertSend(s) ==
  /\ req[s].pc = "i_send"
  /\ \E ok \in StoreOutcomes :
       /\ Spend(ok)
       /\ IF ok
          THEN /\ DOC_INDEX' = Upserted(DOC_INDEX,
                                        VectorsOf(req[s].doc, req[s].filename, req[s].rows))
               /\ req' = [req EXCEPT ![s] = IngestResponds(@, "done")]
          ELSE /\ UNCHANGED DOC_INDEX
               /\ req' = [req EXCEPT ![s] = IngestCatch(@)]
  /\ UNCHANGED <<tables, calls, lastClean, failedRun, indexes, hasDocIndex, call>>

IngestStep(s) ==
  \/ \E text \in IngestTexts : StartIngest(s, text)
  \/ IngestOptions(s)
  \/ IngestInsertDoc(s)
  \/ IngestInsertChunk(s)
  \/ UpsertSelect(s)
  \/ UpsertEmbed(s)
  \/ UpsertSend(s)

\* Retrieval: documents come in by upload and Process or by text ingestion,
\* go by Delete, and are looked up and asked about; the worker runs with or
\* without a vector index binding.
InitRetrieval == InitStores /\ hasDocIndex \in BOOLEAN /\ call = NoCall

NextRetrieval ==
  \E s \in SeqSlots :
    \/ UploadStep(s)
    \/ ProcessStep(s)
    \/ DeleteStep(s)
    \/ IngestStep(s)
    \/ AskStep(s)
    \/ LookupStep(s)

SpecRetrieval == InitRetrieval /\ [][NextRetrieval]_vars

(* ---------------------------------------------------------- chunker calls *)
\* A call of one of the three chunkers is followed pass by pass of its while
\* loop, so that a call that does not return is a behaviour like any other.
\* What the document store, the requests and the indexes hold is left alone.
program == <<tables, req, calls, faults, lastClean, failedRun, indexes, DOC_INDEX, hasDocIndex>>

ChunkChars == {"a", ".", " "}

\* The texts of at most n characters
RECURSIVE TextsUpTo(_)
TextsUpTo(n) ==
  IF n = 0 THEN {<<>>}
  ELSE LET shorter == TextsUpTo(n - 1)
       IN  shorter \cup {Append(t, c) : t \in {x \in shorter : Len(x) = n - 1}, c \in ChunkChars}

\* Chunk size and overlap handed to a chunker, overlap < size
ChunkConfigs == {<<1, 0>>, <<2, 0>>, <<2, 1>>, <<3, 2>>, <<5, 0>>, <<5, 2>>}

\* new BaseParser({ chunkSize, chunkOverlap }): a missing or zero option takes
\* the default
BaseParserOptions(chunkSize, chunkOverlap) ==
  [chunkSize    |-> IF chunkSize = 0 THEN ChunkSize ELSE chunkSize,
   chunkOverlap |-> IF chunkOverlap = 0 THEN ChunkOverlap ELSE chunkOverlap]

\* A call at the head of its loop: const chunks = []; let start = 0
ChunkCall(fn, text, chunkSize, chunkOverlap, size, overlap) ==
  [fn |-> fn, pc |-> "loop", text |-> text,
   chunkSize |-> chunkSize, chunkOverlap |-> chunkOverlap,
   size |-> size, overlap |-> overlap,
   start |-> 0, chunks |-> <<>>, passes |-> 0, starts |-> {}, again |-> FALSE]

\* The calls on the given texts, each chunker under each configuration
ChunkCalls(texts) ==
  {ChunkCall("BaseParser.chunkText", text, cfg[1], cfg[2],
             BaseParserOptions(cfg[1], cfg[2]).chunkSize,
             BaseParserOptions(cfg[1], cfg[2]).chunkOverlap) :
     text \in texts, cfg \in ChunkConfigs}
  \cup {ChunkCall(fn, text, cfg[1], cfg[2], cfg[1], cfg[2]) :
          fn \in {"chunkText", "splitIntoChunks"},
          text \in texts, cfg \in ChunkConfigs}

\* The passes followed of one call
MaxPasses == MaxTextLen + 2

\* BaseParser.chunkText: one pass of while (start < text.length)
ChunkTextPass ==
  /\ call.fn = "BaseParser.chunkText"
  /\ call.pc = "loop"
  /\ call.start < Len(call.text)
  /\ call.passes < MaxPasses
  /\ \E w \in {ChunkWindow(call.text, call.start, call.size, call.overlap)} :
       call' = [call EXCEPT !.chunks = IF w.chunk # <<>> THEN Append(@, w.chunk) ELSE @,
                            !.start = w.next,
                            !.passes = @ + 1,
                            !.starts = @ \cup {call.start},
                            !.again = @ \/ w.next \in call.starts \cup {call.start}]
  /\ UNCHANGED program

\* parser.js chunkText: one pass; chunks.push(chunk.trim()) whatever is left
ParserChunkTextPass ==
  /\ call.fn = "chunkText"
  /\ call.pc = "loop"
  /\ call.start < Len(call.text)
  /\ call.passes < MaxPasses
  /\ \E w \in {ChunkWindow(call.text, call.start, call.size, call.overlap)} :
       call' = [call EXCEPT !.chunks = Append(@, w.chunk),
                            !.start = w.next,
                            !.passes = @ + 1,
                            !.starts = @ \cup {call.start},
                            !.again = @ \/ w.next \in call.starts \cup {call.start}]
  /\ UNCHANGED program

\* Both chunkText loops: start < text.length fails, return chunks
ChunkTextReturn ==
  /\ call.fn \in {"BaseParser.chunkText", "chunkText"}
  /\ call.pc = "loop"
  /\ ~(call.start < Len(call.text))
  /\ call' = [call EXCEPT !.pc = "returned"]
  /\ UNCHANGED program

\* splitIntoChunks: one pass that goes on to the next
SplitPass ==
  /\ call.fn = "splitIntoChunks"
  /\ call.pc = "loop"
  /\ call.start < Len(call.text)
  /\ call.passes < MaxPasses
  /\ \E w \in {SplitWindow(call.text, call.start, call.size, call.overlap)} :
       /\ ~w.last
       /\ call' = [call EXCEPT !.chunks = IF w.chunk # <<>> THEN Append(@, w.chunk) ELSE @,
                               !.start = w.next,
                               !.passes = @ + 1,
                               !.starts = @ \cup {call.start},
                               !.again = @ \/ w.next \in call.starts \cup {call.start}]
  /\ UNCHANGED program

\* splitIntoChunks: the pass that reaches the end (if (end === length) break),
\* or a text without characters; return chunks
SplitReturn ==
  /\ call.fn = "splitIntoChunks"
  /\ call.pc = "loop"
  /\ IF call.start < Len(call.text)
     THEN \E w \in {SplitWindow(call.text, call.start, call.size, call.overlap)} :
            /\ w.last
            /\ call' = [call EXCEPT !.chunks = IF w.chunk # <<>> THEN Append(@, w.chunk) ELSE @,
                                    !.passes = @ + 1,
                                    !.starts = @ \cup {call.start},
                                    !.pc = "returned"]
     ELSE call' = [call EXCEPT !.pc = "returned"]
  /\ UNCHANGED program

InitChunk == InitStores /\ hasDocIndex = FALSE /\ call \in ChunkCalls(TextsUpTo(MaxTextLen))

NextChunk ==
  \/ ChunkTextPass
  \/ ParserChunkTextPass
  \/ ChunkTextReturn
  \/ SplitPass
  \/ SplitReturn

SpecChunk == InitChunk /\ [][NextChunk]_vars

(* -------------------------------------------------------- signature calls *)
\* Leading bytes of the buffers handed to the signature functions: a PDF, a
\* text, a PNG, a JPEG, a ZIP container, an OLE2 document
SigHeads ==
  {PdfHead, TxtHead,
   <<137, 80, 78, 71, 13, 10, 26, 10>>,
   <<255, 216, 255, 224, 0, 16, 74, 70>>,
   <<80, 75, 3, 4, 20, 0, 6, 0>>,
   <<208, 207, 17, 224, 161, 177, 26, 225>>}

\* The buffers: every prefix of a head as a whole buffer, and the head as
\* the start of a longer one
SigBuffers ==
  {[len |-> n, head |-> SubSeq(h, 1, n)] : h \in SigHeads, n \in 0..Len(PdfHead)}
  \cup {[len |-> 8 * Len(h), head |-> h] : h \in SigHeads}

\* Declared content types
SigMimeTypes ==
  {"application/pdf", "text/plain", "image/png", "image/jpeg", "application/zip",
   "application/vnd.openxmlformats-officedocument.wordprocessingml.document",
   "application/msword", "application/vnd.ms-excel", "application/octet-stream", ""}

\* fileInfo.type handed to detectParser: in an allow-list, a text/ type that
\* is in none, types of other families, none
RoutedTypes ==
  {"application/pdf", "text/plain", "application/json", "text/calendar",
   "application/octet-stream", "image/png", ""}

\* fileInfo.name handed to detectParser
RoutedNames == {"report.pdf", "REPORT.PDF", "notes.txt", "data.json", "archive.bin", "pdf", ""}

\* The detectedType argument: detectFileType's answers
RoutedDetected == {NULL, "pdf", "png", "zip"}

SigCalls ==
  {[fn |-> "detectFileType", pc |-> "called", buffer |-> b, declaredMimeType |-> m] :
     b \in SigBuffers, m \in SigMimeTypes}
  \cup {[fn |-> "validateFileSignature", pc |-> "called", buffer |-> b,
         declaredMimeType |-> m] : b \in SigBuffers, m \in SigMimeTypes}
  \cup {[fn |-> "detectParser", pc |-> "called", fileInfo |-> [name |-> n, type |-> m],
         detectedType |-> d] : n \in RoutedNames, m \in RoutedTypes, d \in RoutedDetected}

\* detectFileType(buffer) returns
DetectFileTypeReturn ==
  /\ call.fn = "detectFileType"
  /\ call.pc = "called"
  /\ call' = [fn |-> call.fn, pc |-> "returned", buffer |-> call.buffer,
              declaredMimeType |-> call.declaredMimeType,
              result |-> detectFileType(call.buffer)]
  /\ UNCHANGED program

\* validateFileSignature(buffer, declaredMimeType) returns
ValidateFileSignatureReturn ==
  /\ call.fn = "validateFileSignature"
  /\ call.pc = "called"
  /\ call' = [fn |-> call.fn, pc |-> "returned", buffer |-> call.buffer,
              declaredMimeType |-> call.declaredMimeType,
              result |-> validateFileSignature(call.buffer, call.declaredMimeType)]
  /\ UNCHANGED program

\* detectParser(fileInfo, detectedType) returns, or throws ("none")
DetectParserReturn ==
  /\ call.fn = "detectParser"
  /\ call.pc = "called"
  /\ call' = [fn |-> call.fn, pc |-> "returned", fileInfo |-> call.fileInfo,
              detectedType |-> call.detectedType,
              result |-> detectParser(call.fileInfo, call.detectedType)]
  /\ UNCHANGED program

InitSig == InitStores /\ hasDocIndex = FALSE /\ call \in SigCalls

NextSig ==
  \/ DetectFileTypeReturn
  \/ ValidateFileSignatureReturn
  \/ DetectParserReturn

SpecSig == InitSig /\ [][NextSig]_vars

(* ---------------------------------------------------------- keyword calls *)
\* The words questions are made of: stop words, one of them capitalised,
\* words under three characters, words that are kept, one of them twice in
\* different case
QuestionWords ==
  << <<"W", "h", "a", "t">>, <<"i", "s">>, <<"t", "h", "e">>, <<"M", "a", "x">>,
     <<"f", "l", "o", "w">>, <<"a", "1">>, <<"r", "a", "t", "e">>, <<"p", "u", "m", "p">>,
     <<"F", "L", "O", "W">>, <<"v", "a", "l", "v", "e">>, <<"k", "i", "t", "2">>,
     <<"s", "e", "a", "l">> >>

\* The questions that take some of the first n words, in their order, each
\* followed by `sep`
RECURSIVE QuestionsOf(_, _)
QuestionsOf(n, sep) ==
  IF n = 0 THEN {<<>>}
  ELSE LET shorter == QuestionsOf(n - 1, sep)
       IN  shorter \cup {q \o QuestionWords[n] \o sep : q \in shorter}

\* What stands between the words: a blank, or a question mark and a line end
QuestionSeparators == {<<" ">>, <<"?", "\n">>}

\* extractKeywords(question) with the default maxKeywords, as searchChunksSimple
\* calls it
KeywordCalls(n) ==
  {[fn |-> "extractKeywords", pc |-> "called", question |-> q] :
     q \in UNION {QuestionsOf(n, sep) : sep \in QuestionSeparators}}

ExtractKeywordsReturn ==
  /\ call.fn = "extractKeywords"
  /\ call.pc = "called"
  /\ call' = [fn |-> call.fn, pc |-> "returned", question |-> call.question,
              result |-> extractKeywords(call.question, MaxKeywords)]
  /\ UNCHANGED program

InitKeywords == InitStores /\ hasDocIndex = FALSE /\ call \in KeywordCalls(Len(QuestionWords))

NextKeywords == ExtractKeywordsReturn

SpecKeywords == InitKeywords /\ [][NextKeywords]_vars

(* ----------------------------------------------------------------- claims *)
\* The request in slot s was `op` and has returned or thrown to its caller,
\* or was ended by the host
Finished(s, op) == req[s].op = op /\ req[s].pc = "done"

\* The rows of document d in a snapshot of the stores
ViewIn(snap, d) ==
  ViewOf({p \in snap.pages : p.document_id = d}, {c \in snap.chunks : c.document_id = d})

\* The rows one undisturbed Process run stores for a parse result
CleanView(parsed) ==
  LET rows == InsertsOf(parsed)
      ofKind(t) == {i \in 1..Len(rows) : rows[i].t = t}
  IN  [np |-> Cardinality(ofKind("page")),
       pages |-> {<<rows[i].n, rows[i].text>> : i \in ofKind("page")},
       nc |-> Cardinality(ofKind("chunk")),
       chunks |-> {<<rows[i].n, rows[i].text>> : i \in ofKind("chunk")}]

\* C1 (as the specification states it): in every reachable state, every
\* Document whose status is `processed` has at least one Page row with
\* non-empty content.
C1_ProcessedHasPage ==
  \A d \in DOMAIN documents :
    documents[d].status = "processed" => \E p \in PagesOf(d) : Len(p.content) > 0

\* C2 (as the specification states it): in every reachable state, every
\* Document whose status is `error` has a parsed_metadata payload holding an
\* error code and an error message, whichever operation set the status.
C2_ErrorHasPayload ==
  \A d \in DOMAIN documents :
    documents[d].status = "error" =>
      /\ documents[d].parsed_metadata.kind = "error"
      /\ documents[d].parsed_metadata.code # ""
      /\ documents[d].parsed_metadata.message # ""

\* C3: a Process run that parses and meets no fault, made right after another
\* such run on the same document, leaves the Page and Chunk rows the first run
\* left: same count, same page numbers, same chunk indices, same content.
C3_ReprocessSameRows ==
  \A s \in Slots :
    (Finished(s, "process") /\ req[s].parsed.kind = "ok" /\ ~req[s].faulted
       /\ req[s].prev.valid)
    => DocView(req[s].doc) = req[s].prev.view

\* C3 witness: a second successful Process run in succession has returned and
\* the document has rows.
C3_Witness ==
  \E s \in Slots :
    /\ Finished(s, "process") /\ req[s].result.kind = "ok" /\ ~req[s].faulted
    /\ req[s].prev.valid
    /\ DocView(req[s].doc).np > 0

\* C4 (as the specification states it): once the parser has succeeded, in no
\* state of the Process run, and in no state it leaves behind, does the
\* document have anything but its old rows or the complete new set.
C4_AtomicReplace ==
  \A s \in Slots :
    (req[s].op = "process" /\ req[s].parsed.kind = "ok")
    => DocView(req[s].doc) \in {ViewIn(req[s].pre, req[s].doc), CleanView(req[s].parsed)}

C6_RetryCompletes ==
  \A s \in Slots :
    (/\ Finished(s, "process") /\ req[s].hadFailed /\ ~req[s].faulted
     /\ \/ req[s].parsed.kind = "hang"
        \/ req[s].parsed.kind = "ok" /\ Len(validPages(req[s].parsed.pages)) > 0)
    => /\ req[s].result.kind = "ok"
       /\ documents[req[s].doc].status = "processed"
       /\ DocView(req[s].doc) = CleanView(req[s].parsed)

\* The file yields no page with content once its text is sanitized
NoExtractableText(f) ==
  /\ ~Files[f].lib.throws
  /\ PdfPages(Files[f].lib.rawPages, 1) = <<>>
  /\ Len(sanitizeText(Files[f].text)) = 0

\* C7 (as the specification states it): a document whose file yields no page
\* with content is never `processed`, no placeholder text is stored as its
\* page content, and a Process run on it that meets no fault ends with status
\* `error` and code NO_CONTENT.
C7_NoContentIsError ==
  /\ \A d \in DOMAIN documents :
       (HasBlob(d) /\ NoExtractableText(r2[d]))
       => /\ documents[d].status # "processed"
          /\ \A p \in PagesOf(d) : p.content # PdfPlaceholder
  /\ \A s \in Slots :
       (Finished(s, "process") /\ req[s].parsed.kind = "ok" /\ ~req[s].faulted
          /\ NoExtractableText(req[s].file))
       => /\ documents[req[s].doc].status = "error"
          /\ documents[req[s].doc].parsed_metadata.code = "NO_CONTENT"

\* C8 (as the specification states it): when the format parser throws with a
\* code of its own, that code is the one Process stores.
C8_SpecificCodeStored ==
  \A s \in Slots :
    (Finished(s, "process") /\ req[s].parsed.kind = "throw" /\ ~req[s].faulted)
    => LET fileInfo == [name |-> req[s].filename, type |-> req[s].contentType]
           buf == Files[req[s].file]
           own == FormatParserParse(detectParser(fileInfo, detectFileType(buf)), buf, fileInfo)
       IN  (req[s].parsed.code \notin {"SIGNATURE_MISMATCH", "UNSUPPORTED_FILE_TYPE"}
              /\ own.kind = "throw" /\ own.code # "")
           => documents[req[s].doc].parsed_metadata.code = own.code

\* The upload is one the specification has rejected: no filename, a zero-byte
\* or oversized file, a signature that contradicts the declared type, or a
\* detected type that is not supported.
Rejectable(r) ==
  /\ r.file # NoFile
  /\ \/ r.filename = ""
     \/ Files[r.file].len = 0
     \/ Files[r.file].len > MaxUploadBytes
     \/ LET v == validateFileSignature(Files[r.file], r.contentType)
        IN  v.validatable /\ ~v.isValid
     \/ detectFileType(Files[r.file]) \notin {NULL, "pdf"}

\* C9: from the start of such an Upload to its end the blob store and the
\* tables are what they were before the call, and the call ends in an error.
C9_RejectedUploadWritesNothing ==
  \A s \in Slots :
    (req[s].op = "upload" /\ Rejectable(req[s]))
    => /\ Snapshot = req[s].pre
       /\ (req[s].pc = "done" /\ ~req[s].faulted) => req[s].result.kind = "error"

\* C9 witness: a rejected Upload has thrown while the stores hold a document.
C9_Witness ==
  \E s \in Slots :
    /\ Finished(s, "upload") /\ Rejectable(req[s]) /\ req[s].result.kind = "error"
    /\ DOMAIN r2 # {} /\ DOMAIN documents # {}

\* C10: an Upload that throws after its blob write has issued the delete of
\* the blob key: the blob is gone unless the delete failed, and a failed
\* delete is logged while the caller gets the upload error.
C10_BlobCleanup ==
  \A s \in Slots :
    (Finished(s, "upload") /\ req[s].result.kind = "error" /\ req[s].blobWritten)
    => /\ req[s].deleteIssued
       /\ ~req[s].deleteFailed => ~HasBlob(req[s].doc)
       /\ req[s].deleteFailed =>
            /\ "Failed to clean up R2 object" \in req[s].logged
            /\ req[s].result.message = "Failed to upload document: " \o req[s].error

\* C10 witness: an Upload failed after its blob write, the delete of the blob
\* failed too, and the upload error reached the caller.
C10_Witness ==
  \E s \in Slots :
    /\ Finished(s, "upload") /\ req[s].result.kind = "error"
    /\ req[s].blobWritten /\ req[s].deleteFailed

\* C11: an Upload that returns to its caller has added exactly one Document
\* row, with status `uploaded`; that document has exactly one Page row, the
\* placeholder with page number 1, and no Chunk row; the bytes are in the blob
\* store under the key made from the new document id.
C11_UploadLeavesOneRow ==
  \A s \in Slots :
    (Finished(s, "upload") /\ req[s].result.kind = "ok")
    => LET d == req[s].doc
       IN  /\ d \notin DOMAIN req[s].pre.documents
           /\ DOMAIN documents = DOMAIN req[s].pre.documents \cup {d}
           /\ \A k \in DOMAIN req[s].pre.documents : documents[k] = req[s].pre.documents[k]
           /\ documents[d].status = "uploaded"
           /\ documents[d].r2_key = d
           /\ Cardinality(PagesOf(d)) = 1
           /\ \A p \in PagesOf(d) : p.page_number = 1 /\ p.content = UploadPlaceholder
           /\ ChunksOf(d) = {}
           /\ d \notin DOMAIN req[s].pre.r2
           /\ HasBlob(d) /\ r2[d] = req[s].file

\* C11 witness: an Upload has returned and its bytes are stored.
C11_Witness ==
  \E s \in Slots :
    /\ Finished(s, "upload") /\ req[s].result.kind = "ok"
    /\ HasBlob(req[s].doc) /\ Exists(req[s].doc)

\* C12: a Delete of an id that had a Document row, whose own table statements
\* met no fault, returns without error and leaves no Document, Page or Chunk
\* row of that id, whether or not the delete of the blob failed.
C12_DeleteSurvivesBlobFailure ==
  \A s \in Slots :
    (Finished(s, "delete") /\ req[s].doc \in DOMAIN req[s].pre.documents /\ ~req[s].faulted)
    => /\ req[s].result.kind = "ok"
       /\ ~Exists(req[s].doc)
       /\ PagesOf(req[s].doc) = {}
       /\ ChunksOf(req[s].doc) = {}

\* C12 witness: a Delete has returned although its blob delete failed; the
\* document had Page rows and its blob is still in the store.
C12_Witness ==
  \E s \in Slots :
    /\ Finished(s, "delete") /\ req[s].deleteFailed /\ req[s].result.kind = "ok"
    /\ ViewIn(req[s].pre, req[s].doc).np > 0
    /\ HasBlob(req[s].doc)
    /\ ~Exists(req[s].doc)

\* The entries the triggers keep for Page rows and for Chunk rows
PageIndexImage(pages) ==
  {[rowid |-> p.id, document_id |-> p.document_id, content |-> p.content] : p \in pages}
ChunkIndexImage(chunks) == {[rowid |-> c.id, chunk_text |-> c.chunk_text] : c \in chunks}

\* Index entries and source rows are not in 1:1 correspondence
DivergedAt(idx, snap) ==
  idx.pages # PageIndexImage(snap.pages) \/ idx.chunks # ChunkIndexImage(snap.chunks)
Diverged == DivergedAt(Indexes, Snapshot)

\* C14 (as the specification states it): a health check that has run its
\* queries reports healthy exactly when the index entries it looked at
\* correspond to the source rows; a search leaves the index as it found it; a
\* Rebuild that has returned has left entries and rows in correspondence, with
\* equal counts.
C14_HealthFollowsIndex ==
  \A s \in Slots :
    /\ (Finished(s, "health") /\ ~req[s].faulted)
         => (req[s].ext.health.healthy <=> ~DivergedAt(req[s].ext.idx0, req[s].pre))
    /\ (req[s].op = "search" /\ req[s].pc # "done") => Indexes = req[s].ext.idx0
    /\ (Finished(s, "rebuild") /\ req[s].result.kind = "ok")
         => /\ ~DivergedAt(req[s].ext.left, req[s].pre)
            /\ Cardinality(req[s].ext.left.pages) = Cardinality(req[s].pre.pages)
            /\ Cardinality(req[s].ext.left.chunks) = Cardinality(req[s].pre.chunks)

\* C15: from its start to its end a Rebuild leaves the blob store and the
\* Document, Page and Chunk rows as they were, and a Rebuild that returns,
\* started right after another that returned, leaves the index contents the
\* first one left.
C15_RebuildIdempotent ==
  \A s \in Slots :
    req[s].op = "rebuild"
    => /\ req[s].pc # "done" => Snapshot = req[s].pre
       /\ (req[s].pc = "done" /\ req[s].result.kind = "ok")
            => /\ Snapshot = req[s].pre
               /\ req[s].ext.twice => req[s].ext.left = req[s].ext.idx0

\* C15 witness: a second Rebuild in a row has returned with a page indexed.
C15_Witness ==
  \E s \in Slots :
    /\ Finished(s, "rebuild") /\ req[s].result.kind = "ok" /\ req[s].ext.twice
    /\ req[s].ext.left.pages # {} /\ document_pages # {}

\* C13: once Delete of an id has returned, the id has no Document, Page or
\* Chunk row; Process and lookup of an id that has no Document row fail
\* with "Document not found"; and no excerpt that retrieval returns, by the
\* vector search or by the keyword search, names an id without a Document
\* row, whatever records the vector index still holds for it.
C13_DeletedIsGone ==
  \A s \in Slots :
    /\ Finished(s, "delete") /\ req[s].result.kind = "ok"
         => /\ ~Exists(req[s].doc)
            /\ PagesOf(req[s].doc) = {}
            /\ ChunksOf(req[s].doc) = {}
    /\ Finished(s, "process") /\ req[s].doc \notin DOMAIN req[s].pre.documents
         => /\ req[s].result.kind = "error"
            /\ \/ req[s].faulted
               \/ req[s].result.message = "Failed to process document: Document not found"
    /\ Finished(s, "lookup") /\ req[s].doc \notin DOMAIN req[s].pre.documents
         => /\ req[s].result.kind = "error"
            /\ req[s].faulted \/ req[s].result.message = "Document not found"
    /\ req[s].op = "ask"
         => \A e \in req[s].ext.found : e.documentId \in DOMAIN req[s].pre.documents

\* A question was answered while the vector index matched it with a record
\* of a document that had been deleted
C13_Witness ==
  \E s \in Slots :
    /\ Finished(s, "ask")
    /\ req[s].result.kind = "ok"
    /\ req[s].ext.vector = "none"
    /\ \E i \in DOMAIN req[s].rows :
         /\ req[s].rows[i] \in DOC_INDEX
         /\ req[s].rows[i].documentId \notin DOMAIN req[s].pre.documents

\* The stored chunks whose lower-cased text contains a keyword extracted from
\* the question, as <<text, documentId, chunkIndex>>
KeywordChunks(chunks, question) ==
  LET keywords == extractKeywords(question, MaxKeywords)
  IN  {<<c.chunk_text, c.document_id, c.chunk_index>> :
         c \in {x \in chunks :
                  \E k \in DOMAIN keywords :
                    Contains(toLowerCase(x.chunk_text), keywords[k])}}

\* C16: with a vector index configured the vector query runs before any
\* keyword search; when the index is not configured, the vector query gives
\* no usable match, or the embedding, the vector query or the text fetch
\* throws, the keyword search runs and the caller gets its result: up
\* to TopK of the stored chunks that contain a keyword, none when no chunk
\* does.  The request ends in an error only if the keyword search itself threw.
C16_LexicalFallback ==
  \A s \in Slots :
    req[s].op = "ask" =>
      /\ req[s].pc \in {"a_query", "a_fetch"}
           => hasDocIndex /\ req[s].ext.lexThrows = 0 /\ ~req[s].ext.caught /\ req[s].ext.via = ""
      /\ req[s].pc = "done" =>
           /\ hasDocIndex <=> req[s].ext.vector \in {"failed", "none", "some"}
           /\ ~hasDocIndex <=> req[s].ext.vector = "unconfigured"
           /\ req[s].ext.vector = "some"
                => req[s].result.kind = "ok" /\ req[s].ext.via = "vector" /\ req[s].ext.found # {}
           /\ req[s].ext.vector \in {"unconfigured", "none", "failed"}
                => IF req[s].result.kind = "ok"
                   THEN LET eligible == KeywordChunks(req[s].pre.chunks, req[s].ext.question)
                            got == {<<e.text, e.documentId, e.chunkIndex>> : e \in req[s].ext.found}
                        IN  /\ req[s].ext.via = "simple"
                            /\ got \subseteq eligible
                            /\ Cardinality(got) = Min2(TopK, Cardinality(eligible))
                   ELSE req[s].ext.lexThrows > 0

\* The embedding or the vector query threw and the caller still got the
\* chunk that holds the keyword
C16_Witness ==
  \E s \in Slots :
    /\ Finished(s, "ask")
    /\ req[s].ext.vector = "failed"
    /\ req[s].result.kind = "ok"
    /\ req[s].ext.via = "simple"
    /\ req[s].ext.found # {}
    /\ DOC_INDEX # {}

\* C17: when the chunk query, an embedding call or the vector upsert throws
\* during text ingestion, the failure is logged, the request still answers
\* 201 ok, and the Document, Page and Chunk rows are the ones that were there
\* when the upsert began: no step of the upsert changes a row.
C17_UpsertFailureSwallowed ==
  \A s \in Slots :
    req[s].op = "ingest" =>
      /\ req[s].pc \in {"i_upsert", "i_embed", "i_send"} => Snapshot = req[s].ext.mid
      /\ req[s].pc = "done" /\ req[s].ext.upsert = "failed"
           => /\ req[s].result.kind = "ok"
              /\ "Vector upsert error (ignored)" \in req[s].logged
              /\ req[s].ext.after = req[s].ext.mid
              /\ req[s].doc \in DOMAIN req[s].ext.after.documents
              /\ \E c \in req[s].ext.after.chunks : c.document_id = req[s].doc

\* An ingestion whose embedding call or vector upsert threw has answered
C17_Witness ==
  \E s \in Slots :
    /\ Finished(s, "ingest")
    /\ hasDocIndex
    /\ req[s].ext.upsert = "failed"
    /\ req[s].faulted
    /\ req[s].pc = "done"
    /\ req[s].rows # <<>>
    /\ \E c \in req[s].ext.after.chunks : c.document_id = req[s].doc

\* The numbers of characters a chunk can be said to share with its
\* predecessor: a prefix of the chunk that ends the predecessor, at most
\* `overlap` long
SharedLengths(prev, chunk, overlap) ==
  {k \in 0..Min2(overlap, Min2(Len(prev), Len(chunk))) :
     SubSeq(prev, Len(prev) - k + 1, Len(prev)) = SubSeq(chunk, 1, k)}

\* The texts obtained from the first n chunks by removing from each chunk an
\* overlap shared with its predecessor and concatenating what remains
RECURSIVE Reassemblies(_, _, _)
Reassemblies(chunks, n, overlap) ==
  IF n = 0 THEN {<<>>}
  ELSE IF n = 1 THEN {chunks[1]}
  ELSE {head \o SubSeq(chunks[n], k + 1, Len(chunks[n])) :
          head \in Reassemblies(chunks, n - 1, overlap),
          k \in SharedLengths(chunks[n - 1], chunks[n], overlap)}

\* C18: the chunks a chunker returns give back the text they were cut from
\* when the overlap each chunk shares with its predecessor is removed and the
\* remainders are concatenated in order.
C18_ChunksReassemble ==
  call.pc = "returned" =>
    call.text \in Reassemblies(call.chunks, Len(call.chunks), call.chunkOverlap)

\* C19: no chunk a chunker has pushed, in a call that returns or in one that
\* does not, is longer than the configured chunk size.
C19_ChunkWithinSize ==
  call.fn # "none" =>
    \A i \in DOMAIN call.chunks : Len(call.chunks[i]) <= call.chunkSize

\* A call has returned several chunks, one of them before the last as long
\* as the chunk size
C19_Witness ==
  /\ call.pc = "returned"
  /\ call.fn = "chunkText"
  /\ call.chunkSize >= 2
  /\ Len(call.chunks) >= 2
  /\ \E i \in DOMAIN call.chunks :
       i < Len(call.chunks) /\ Len(call.chunks[i]) = call.chunkSize

\* C20: detectFileType returns "pdf" for every buffer whose first four bytes
\* are 25 50 44 46 (hex), whatever follows them and however long the buffer is.
C20_PdfMagicDetected ==
  /\ call.fn = "detectFileType"
  /\ call.pc = "returned"
  /\ Len(call.buffer.head) >= 4
  /\ SubSeq(call.buffer.head, 1, 4) = <<37, 80, 68, 70>>
  => call.result = "pdf"

\* The declared types that name a ZIP-based Office format
OfficeZipTypes ==
  {"application/vnd.openxmlformats-officedocument.wordprocessingml.document",
   "application/vnd.openxmlformats-officedocument.spreadsheetml.sheet",
   "application/vnd.openxmlformats-officedocument.presentationml.presentation"}

\* C21: validateFileSignature decides by the declared type's mapping and the
\* detected signature: no mapping gives validatable = false and isValid =
\* true; a mapping and no detected signature gives isValid = false; detected
\* equal to mapped gives isValid = true; a declared ZIP-based Office type
\* with detected zip gives isValid = true; everything else gives isValid =
\* false and reports the detected type.
C21_SignatureDecision ==
  (call.fn = "validateFileSignature" /\ call.pc = "returned") =>
    LET detected == detectFileType(call.buffer)
        mapped   == MIME_TO_SIGNATURE(call.declaredMimeType)
        res      == call.result
    IN  /\ mapped = NULL => (~res.validatable /\ res.isValid)
        /\ (mapped # NULL /\ detected = NULL) => ~res.isValid
        /\ (mapped # NULL /\ detected # NULL /\ detected = mapped) => res.isValid
        /\ (call.declaredMimeType \in OfficeZipTypes /\ detected = "zip") => res.isValid
        /\ (/\ mapped # NULL
            /\ detected # NULL
            /\ detected # mapped
            /\ ~(call.declaredMimeType \in OfficeZipTypes /\ detected = "zip"))
           => (~res.isValid /\ res.detectedType = detected)

\* A declared Word document whose bytes are a ZIP container was let through
C21_Witness ==
  /\ call.fn = "validateFileSignature"
  /\ call.pc = "returned"
  /\ call.declaredMimeType \in OfficeZipTypes
  /\ detectFileType(call.buffer) = "zip"
  /\ call.result.isValid
  /\ call.result.validatable

\* C22: parser routing: a detected PDF signature selects the PDF parser;
\* otherwise an exact match of the declared type or of the extension with the
\* PDF allow-list selects the PDF parser, else one with the text allow-list
\* the text parser, a declared type outside the lists never counting; with no
\* match and no detected signature the text parser is selected, and with no
\* match and another signature none is.
C22_RoutingExactMatch ==
  (call.fn = "detectParser" /\ call.pc = "returned") =>
    LET type == call.fileInfo.type
        ext  == Ext(call.fileInfo.name)
    IN  call.result =
          IF call.detectedType = "pdf" THEN "pdf"
          ELSE IF type = "application/pdf" \/ ext = "pdf" THEN "pdf"
          ELSE IF type \in TextMimeTypes \/ ext \in TextExtensions THEN "text"
          ELSE IF call.detectedType = NULL THEN "text"
          ELSE "none"

\* C23: keyword extraction returns at most five keywords, each lowercase,
\* made only of letters and digits, at least 3 characters long and not a
\* stop word.
C23_KeywordsWellFormed ==
  (call.fn = "extractKeywords" /\ call.pc = "returned") =>
    /\ Len(call.result) <= 5
    /\ \A k \in DOMAIN call.result :
         LET word == call.result[k]
         IN  /\ \A i \in DOMAIN word :
                  \/ \E j \in DOMAIN Letters : Letters[j] = word[i]
                  \/ word[i] \in Digits
             /\ Len(word) >= 3
             /\ word \notin STOP_WORDS

\* C24: in chunkText of BaseParser and of parser.js, under a configuration
\* with 0 <= overlap < size, every advance moves the window start strictly
\* forward: the start is never negative and is beyond every position the
\* loop has used.
C24_WindowMovesForward ==
  (/\ call.fn \in {"BaseParser.chunkText", "chunkText"}
   /\ 0 <= call.overlap
   /\ call.overlap < call.size) =>
    /\ call.start >= 0
    /\ \A used \in call.starts : used < call.start
    /\ ~call.again

\* The request in slot b began while the one in slot a was being served, as
\* the next request after it, and the one in slot a began with no other
\* request being served
BeganDuring(a, b) ==
  /\ req[a].serial # 0
  /\ req[a].beside = 0
  /\ req[b].serial = req[a].serial + 1
  /\ req[b].beside = req[a].serial

\* The requests in the two slots were served at the same time, and no
\* other request with them
Overlapped(a, b) == BeganDuring(a, b) \/ BeganDuring(b, a)

\* C25: when a Rebuild has run at the same time as a Process or a Delete
\* and both have finished, no store statement having failed on its own, the
\* Rebuild met no entry that was already there and the page index and the
\* chunk index correspond 1:1 to the Page and Chunk rows.
C25_RebuildRaceKeepsIndex ==
  \A a, b \in Slots :
    (/\ Finished(a, "rebuild")
     /\ Finished(b, "process") \/ Finished(b, "delete")
     /\ Overlapped(a, b)
     /\ faults = 0)
    => /\ req[a].result.kind = "ok"
       /\ ~Diverged

\* The paths of Upload and Process the request in slot s can have ended on:
\* Upload returned; Upload failed on one statement and ran its catch block;
\* Process returned; the parser threw; the parse held no page with content
FinishedOnPath(s) ==
  LET r == req[s]
  IN  /\ r.pc = "done"
      /\ \/ r.op = "upload" /\ r.result.kind = "ok"
         \/ r.op = "upload" /\ r.result.kind = "error" /\ r.faulted /\ faults = 1
         \/ /\ r.op = "process"
            /\ ~r.faulted
            /\ \/ r.result.kind = "ok"
               \/ r.parsed.kind = "throw"
               \/ r.parsed.kind = "ok" /\ validPages(r.parsed.pages) = <<>>

\* C26: on each path of Upload and of Process the statement that writes the
\* Document's status is the last durable write: when the request has ended,
\* the last statement of it that wrote was a status write, no Page, Chunk or
\* blob write having come after it.
C26_StatusWrittenLast ==
  \A s \in Slots : FinishedOnPath(s) => req[s].lastWrite = "status"

\* What the stores hold under id d: the Document row, the Page and Chunk
\* rows, the blob
HeldIn(docs, pages, chunks, blobs, d) ==
  [row    |-> IF d \in DOMAIN docs THEN <<docs[d]>> ELSE <<>>,
   pages  |-> {p \in pages : p.document_id = d},
   chunks |-> {c \in chunks : c.document_id = d},
   blob   |-> IF d \in DOMAIN blobs THEN <<blobs[d]>> ELSE <<>>]

\* A step of the request in slot s leaves what is held under every other id
\* as it is
TouchesOwnOnly(s) ==
  (req'[s] # req[s]) =>
    LET own == IF Free(s) THEN req'[s].doc ELSE req[s].doc
    IN  \A e \in DocIds \ {own} :
          HeldIn(documents', document_pages', document_chunks', r2', e)
            = HeldIn(documents, document_pages, document_chunks, r2, e)

\* What a call served alone leaves under its id, when no statement of it
\* failed: an Upload the Document row with status `uploaded`, the
\* placeholder Page and the blob; a Process the rows of its parse result and
\* status `processed`; a Delete nothing.
LeftAsAlone(s) ==
  LET r == req[s]
      d == r.doc
  IN  (r.pc = "done" /\ r.result.kind = "ok" /\ ~r.faulted) =>
        /\ r.op = "upload" =>
             /\ Exists(d) /\ documents[d].status = "uploaded"
             /\ PagesOf(d) # {}
             /\ \A p \in PagesOf(d) : p.page_number = 1 /\ p.content = UploadPlaceholder
             /\ Cardinality(PagesOf(d)) = 1
             /\ ChunksOf(d) = {}
             /\ HasBlob(d) /\ r2[d] = r.file
        /\ r.op = "process" =>
             /\ Exists(d) /\ documents[d].status = "processed"
             /\ DocView(d) = CleanView(r.parsed)
        /\ r.op = "delete" =>
             /\ ~Exists(d)
             /\ PagesOf(d) = {}
             /\ ChunksOf(d) = {}

\* C27: when Upload, Process and Delete calls on two different document ids
\* are served at the same time, every step of a call leaves the Document,
\* Page and Chunk rows and the blob of the other id untouched, and a call
\* that has finished has left under its id what it leaves when served alone.
C27_DocumentsIsolated ==
  /\ [](\A s \in Slots : LeftAsAlone(s))
  /\ [][\A s \in Slots : TouchesOwnOnly(s)]_vars

\* C27 witness: a Process of one id and a Delete of the other, served at the
\* same time, have both returned.
C27_Witness ==
  \E a, b \in Slots :
    /\ Overlapped(a, b)
    /\ req[a].doc # req[b].doc
    /\ Finished(a, "process") /\ req[a].result.kind = "ok"
    /\ Finished(b, "delete") /\ req[b].result.kind = "ok"
    /\ DocView(req[a].doc).np > 0

\* C28: no document has two Page rows with the same page_number or two Chunk
\* rows with the same chunk_index, also when two Process calls on the same
\* document id are served at the same time.
C28_RowNumbersUnique ==
  /\ \A p, q \in document_pages :
       (p.document_id = q.document_id /\ p.page_number = q.page_number) => p = q
  /\ \A c, e \in document_chunks :
       (c.document_id = e.document_id /\ c.chunk_index = e.chunk_index) => c = e

\* C29: when Upload has returned or thrown, the Document row of the upload,
\* if there is one, refers through r2_key to a blob that is in the blob
\* store.
C29_RowKeepsItsBlob ==
  \A s \in Slots :
    (Finished(s, "upload") /\ req[s].result.kind \in {"ok", "error"} /\ Exists(req[s].doc))
      => HasBlob(documents[req[s].doc].r2_key)

\* C30: a health check that has run its queries reports healthy only when
\* the page index holds as many entries as there are Page rows and the chunk
\* index holds as many entries as there are Chunk rows.
C30_HealthyCountsBoth ==
  \A s \in Slots :
    (Finished(s, "health") /\ ~req[s].faulted /\ req[s].ext.health.healthy)
      => /\ Cardinality(req[s].ext.idx0.pages) = Cardinality(req[s].pre.pages)
         /\ Cardinality(req[s].ext.idx0.chunks) = Cardinality(req[s].pre.chunks)

====
